---- MODULE Spec2Model ----
(***************************************************************************)
(* Wave-survival game core: ZombieManager (roster, AI, combat),            *)
(* WaveManager (wave table, delayed spawn, wave-clear detection) and the   *)
(* part of PlayerController they call into.                                *)
(*                                                                         *)
(* Units.  Lengths are centimetres (1 world unit = 100), times are         *)
(* milliseconds, unit vectors are scaled by 1000.  The code's float        *)
(* arithmetic becomes integer arithmetic that truncates toward zero.       *)
(***************************************************************************)
EXTENDS Integers, Sequences, FiniteSets, TLC

VARIABLES
    now,                 \* wall clock, ms (Date.now() and performance.now())
    zombies,             \* ZombieManager.zombies, the roster
    nextId,              \* identity of the next created zombie object
    player,              \* PlayerController: camera pose, health, healing flag
    obstacles,           \* PlayerController.obstacles
    healthPacks,         \* HealthPackManager.healthPacks
    lookingAtHealthPack, \* HealthPackManager.lookingAtHealthPack, a pack or NoPack
    nextPackId,          \* identity of the next created health pack object
    waveConfigurations,  \* WaveManager.waveConfigurations
    currentWave,         \* WaveManager.currentWave
    waveActive,          \* WaveManager.waveActive
    waveStartTime,       \* WaveManager.waveStartTime
    zombiesRemaining,    \* WaveManager.zombiesRemaining
    timers,              \* pending setTimeout callbacks, in scheduling order
    score,               \* GameState.score
    generation,          \* number of startGame calls so far
    trueReturns,         \* update() calls that returned true since
                         \* startNextWave: 0, 1, or 2 for more than one
    isSlashing,          \* a knife swing is in progress
    slashProgress,       \* progress of the swing, 1/1000
    swingHits,           \* damageZombie calls since the swing began: 0, 1, or
                         \* 2 for more than one
    keys,                \* GameState.keys, the held state of the tracked keys
    activations,         \* history of the action key: activations during
                         \* the current hold of E (0, 1, or 2 for more than
                         \* one) and the time of the last one (-1: none)
    ret                  \* what the last operation did and returned

vars == <<now, zombies, nextId, player, obstacles, healthPacks,
          lookingAtHealthPack, nextPackId, waveConfigurations,
          currentWave, waveActive, waveStartTime, zombiesRemaining, timers,
          score, generation, trueReturns, isSlashing, slashProgress,
          swingHits, keys, activations, ret>>

zmVars == <<zombies, nextId>>
hpVars == <<healthPacks, lookingAtHealthPack, nextPackId>>
wsVars == <<isSlashing, slashProgress, swingHits>>
akVars == <<keys, activations>>
wmVars == <<waveConfigurations, currentWave, waveActive, waveStartTime,
            zombiesRemaining, timers, generation, trueReturns>>

----------------------------------------------------------------------------
(* Bounds of the model *)

MaxFrames == 9           \* seconds of play in the wave scenarios
MaxCombatTime == 1500    \* ms of play in the combat scenario
MaxHitTime == 1000       \* ms of play in the hit-test scenario
MaxWave == 2             \* startNextWave is not called beyond this wave
MaxRestarts == 1         \* startGame calls after the first
MaxZombies == 1          \* roster size of the combat scenario
MaxTargets == 2          \* roster size of the hit-test scenario
MaxSwingTargets == 2      \* roster size of the swing scenario
MaxSwingTime == 600       \* ms of play in the swing scenario
MaxAttackers == 2         \* roster size of the attack scenario
MaxAttackTime == 2500     \* ms of play in the attack scenario
MaxTableWave == 9         \* startNextWave is not called beyond this wave
MaxSpawnWave == 8         \* last wave of the spawn scenario
MaxTableTime == 2000      \* ms of play in the wave-table scenario
MaxAvoidTime == 500       \* ms of play in the steering scenario
MaxPacks == 1             \* health packs created in the pickup scenario
MaxHealTime == 1500       \* clock limit of the healing scenario, ms
MaxPackTime == 45000      \* ms of play in the pickup scenario
MaxOverkill == 1         \* hits taken by an enemy already at health <= 0

----------------------------------------------------------------------------
(* Fixed-point vector arithmetic *)

UNIT == 1000

DivT(a, b) == IF a >= 0 THEN a \div b ELSE -((-a) \div b)

RECURSIVE SqrtIter(_, _)
SqrtIter(n, r) ==
    LET q == (r + n \div r) \div 2
    IN  IF q >= r THEN r ELSE SqrtIter(n, q)

\* a starting value of the iteration that is not below the root
SqrtSeed(n) ==
    IF n < 256 THEN 16 ELSE IF n < 65536 THEN 256
    ELSE IF n < 16777216 THEN 4096 ELSE 46341

\* floor of the square root
ISqrt(n) == IF n <= 0 THEN 0 ELSE SqrtIter(n, SqrtSeed(n))

Vec(x, y, z) == [x |-> x, y |-> y, z |-> z]

ZeroVec == Vec(0, 0, 0)

LengthSq(v) == v.x * v.x + v.y * v.y + v.z * v.z

Dot(a, b) == a.x * b.x + a.y * b.y + a.z * b.z

\* precision multiplier that keeps the radicand within 32 bits
SqrtGain(sq) == IF sq <= 20000 THEN 300 ELSE IF sq <= 2000000 THEN 30 ELSE 4

\* THREE.Vector3.normalize: v / |v|, the zero vector stays zero
Normalize(v) ==
    LET sq == LengthSq(v)
        k == SqrtGain(sq)
        len == ISqrt(sq * k * k)
    IN  IF len = 0 THEN ZeroVec
        ELSE Vec(DivT(v.x * UNIT * k, len), DivT(v.y * UNIT * k, len),
                 DivT(v.z * UNIT * k, len))

----------------------------------------------------------------------------
(* ZombieManager: enemy records *)

\* REGULAR_ZOMBIE and TANK_ZOMBIE parameter sets (speed in cm/s, scale in %)
REGULAR_ZOMBIE == [health |-> 100, speed |-> 300, damage |-> 10, scale |-> 100]

TANK_ZOMBIE == [health |-> 200, speed |-> 200, damage |-> 20, scale |-> 130]

ZombieTypes == {"regular", "tank", "runner"}

HitFlashDuration == 200
DeathAnimationDuration == 1500
AttackCooldown == 1000
ObstacleDetectionRange == 200
PathfindCooldown == 100
ZombieCenterHeight == 100
HitThreshold == 700
InPathThreshold == 500
MaxObstaclesChecked == 5

\* the parameter set createZombie selects for a type
ZombieParams(type) == IF type = "tank" THEN TANK_ZOMBIE ELSE REGULAR_ZOMBIE

\* the userData and position createZombie gives a new zombie
NewZombie(id, x, z, type) ==
    LET params == ZombieParams(type)
    IN  [id |-> id, zombieType |-> type,
         x |-> x, y |-> 0, z |-> z,
         health |-> params.health,
         speed |-> params.speed,
         damage |-> params.damage,
         radius |-> (50 * params.scale) \div 100,
         attackRange |-> (120 * params.scale) \div 100,
         hitRange |-> (250 * params.scale) \div 100,
         attackCooldown |-> AttackCooldown,
         lastAttackTime |-> 0,
         isHit |-> FALSE,
         hitFlashTime |-> 0,
         isDead |-> FALSE,
         deathAnimationProgress |-> 0,
         state |-> "chase",
         avoidanceTime |-> 0,
         isAvoidingObstacle |-> FALSE,
         avoidanceDirection |-> ZeroVec,
         pathfindCooldown |-> 0,
         isCurrentlyAttacking |-> FALSE,
         attackProgress |-> 0,
         diedAt |-> -1]      \* history: the clock when isDead was set

\* createZombie: build the zombie and push it on the roster
CreateZombieIn(zs, id, x, z, type) == Append(zs, NewZombie(id, x, z, type))

Pos(o) == Vec(o.x, o.y, o.z)

IdsOf(zs) == {zs[i].id : i \in 1..Len(zs)}

ZombieById(zs, id) == zs[CHOOSE i \in 1..Len(zs) : zs[i].id = id]

----------------------------------------------------------------------------
(* ZombieManager.checkZombieHit *)

\* vector from the camera to the zombie's centre
ToZombie(zombie, camera) ==
    Vec(zombie.x - camera.x, zombie.y + ZombieCenterHeight - camera.y,
        zombie.z - camera.z)

\* HitCandidate without the isDead skip at the top of the loop
HitCandidate_CountsDead(zombie, camera) ==
    LET d == ToZombie(zombie, camera)
    IN  /\ LengthSq(d) <= zombie.hitRange * zombie.hitRange
        /\ Dot(camera.forward, Normalize(d)) > HitThreshold * UNIT

\* the loop body's test: alive, within its own hitRange, inside the cone
HitCandidate(zombie, camera) ==
    LET d == ToZombie(zombie, camera)
    IN  /\ ~zombie.isDead
        /\ LengthSq(d) <= zombie.hitRange * zombie.hitRange
        /\ Dot(camera.forward, Normalize(d)) > HitThreshold * UNIT

\* HitScan with the distance test as <= closestDistance
RECURSIVE HitScan_LastOnTie(_, _, _, _)
HitScan_LastOnTie(zs, camera, i, best) ==
    IF i > Len(zs) THEN best
    ELSE LET zombie == zs[i]
             closer == \/ best = 0
                       \/ LengthSq(ToZombie(zombie, camera))
                            <= LengthSq(ToZombie(zs[best], camera))
         IN  IF HitCandidate(zombie, camera) /\ closer
             THEN HitScan_LastOnTie(zs, camera, i + 1, i)
             ELSE HitScan_LastOnTie(zs, camera, i + 1, best)

\* the scan over the roster from index i on, carrying (hitZombie, closestDistance);
\* best = 0 stands for null and closestDistance = Infinity
RECURSIVE HitScan(_, _, _, _)
HitScan(zs, camera, i, best) ==
    IF i > Len(zs) THEN best
    ELSE LET zombie == zs[i]
             closer == \/ best = 0
                       \/ LengthSq(ToZombie(zombie, camera))
                            < LengthSq(ToZombie(zs[best], camera))
         IN  IF HitCandidate(zombie, camera) /\ closer
             THEN HitScan(zs, camera, i + 1, i)
             ELSE HitScan(zs, camera, i + 1, best)

\* index of the zombie checkZombieHit returns, 0 for null
CheckZombieHit(zs, camera) == HitScan(zs, camera, 1, 0)

----------------------------------------------------------------------------
(* ZombieManager.damageZombie *)

\* DamagedZombie with the death test as health < 0
DamagedZombie_StrictDeath(zombie, damage) ==
    LET health == zombie.health - damage
        hit == [zombie EXCEPT !.health = health, !.isHit = TRUE,
                              !.hitFlashTime = 0]
    IN  IF health < 0
        THEN [hit EXCEPT !.isDead = TRUE, !.deathAnimationProgress = 0]
        ELSE hit

\* DamagedZombie with the damage added instead of subtracted
DamagedZombie_Adds(zombie, damage) ==
    LET health == zombie.health + damage
        hit == [zombie EXCEPT !.health = health, !.isHit = TRUE,
                              !.hitFlashTime = 0]
    IN  IF health <= 0
        THEN [hit EXCEPT !.isDead = TRUE, !.deathAnimationProgress = 0]
        ELSE hit

\* the zombie after damageZombie(zombie, damage)
DamagedZombie(zombie, damage) ==
    LET health == zombie.health - damage
        hit == [zombie EXCEPT !.health = health, !.isHit = TRUE,
                              !.hitFlashTime = 0]
    IN  IF health <= 0
        THEN [hit EXCEPT !.isDead = TRUE, !.deathAnimationProgress = 0]
        ELSE hit

\* DamageKills with the return test as health < 0
DamageKills_Strict(zombie, damage) == zombie.health - damage < 0

\* the damaged zombie with the clock of its death recorded, when the call is
\* the one that set isDead
KillStamped(before, after, currentTime) ==
    IF after.isDead /\ ~before.isDead THEN [after EXCEPT !.diedAt = currentTime]
    ELSE after

\* the value damageZombie returns
DamageKills(zombie, damage) == zombie.health - damage <= 0

\* points the wave manager's patched damageZombie awards for the call
KillScore(zombie, wasKilled) ==
    IF ~wasKilled THEN 0
    ELSE IF zombie.zombieType = "tank" THEN 200
    ELSE IF zombie.zombieType = "runner" THEN 150
    ELSE 100

----------------------------------------------------------------------------
(* ZombieManager.getAvoidanceDirection *)

\* an obstacle the scan does not skip for a missing position or radius
ObstacleUsable(obstacle) == obstacle.radius /= 0

\* the obstacle loop from index i on; found is the index of closestObstacle
\* (0 for null), closestSq the square of closestDistance
RECURSIVE ObstacleScan(_, _, _, _, _, _, _)
ObstacleScan(obs, zombie, direction, i, found, closestSq, checkedCount) ==
    IF i > Len(obs) \/ checkedCount >= MaxObstaclesChecked THEN found
    ELSE LET obstacle == obs[i]
             dx == obstacle.x - zombie.x
             dz == obstacle.z - zombie.z
             distSquared == dx * dx + dz * dz
             toObstacle == Normalize(Vec(dx, 0, dz))
             skip == \/ ~ObstacleUsable(obstacle)
                     \/ distSquared > ObstacleDetectionRange * ObstacleDetectionRange
                     \/ Dot(direction, toObstacle) < InPathThreshold * UNIT
         IN  IF skip
             THEN ObstacleScan(obs, zombie, direction, i + 1, found, closestSq,
                               checkedCount)
             ELSE IF distSquared < closestSq
             THEN ObstacleScan(obs, zombie, direction, i + 1, i, distSquared,
                               checkedCount + 1)
             ELSE ObstacleScan(obs, zombie, direction, i + 1, found, closestSq,
                               checkedCount + 1)

\* index of the closest obstacle in the path, 0 when there is none
ClosestObstacle(obs, zombie, direction) ==
    ObstacleScan(obs, zombie, direction, 1, 0,
                 ObstacleDetectionRange * ObstacleDetectionRange, 0)

\* AvoidanceDir with the zombie-to-obstacle vector left at its full length
AvoidanceDir_Unnormalized(zombie, obstacle, direction) ==
    LET toObstacle == Vec(obstacle.x - zombie.x, 0, obstacle.z - zombie.z)
        perpLeft == Vec(-toObstacle.z, 0, toObstacle.x)
        perpRight == Vec(toObstacle.z, 0, -toObstacle.x)
    IN  IF Dot(perpLeft, direction) > Dot(perpRight, direction)
        THEN perpLeft ELSE perpRight

\* the perpendicular to the zombie-to-obstacle vector nearer to the heading
AvoidanceDir(zombie, obstacle, direction) ==
    LET toObstacle == Normalize(Vec(obstacle.x - zombie.x, 0, obstacle.z - zombie.z))
        perpLeft == Vec(-toObstacle.z, 0, toObstacle.x)
        perpRight == Vec(toObstacle.z, 0, -toObstacle.x)
    IN  IF Dot(perpLeft, direction) > Dot(perpRight, direction)
        THEN perpLeft ELSE perpRight

\* unit vector from the zombie to the target, y flattened
DirectionTo(zombie, targetPos) ==
    Normalize(Vec(targetPos.x - zombie.x, 0, targetPos.z - zombie.z))

\* getAvoidanceDirection: the returned direction, the zombie as the call
\* leaves it and whether the obstacle scan ran; jitter is Math.random() * 0.2
GetAvoidanceDirection(zombie, targetPos, obs, jitter) ==
    LET direction == DirectionTo(zombie, targetPos)
        cooled == [zombie EXCEPT !.pathfindCooldown = PathfindCooldown]
        found == ClosestObstacle(obs, zombie, direction)
        avoidanceDir == AvoidanceDir(zombie, obs[found], direction)
    IN  IF zombie.isAvoidingObstacle /\ zombie.avoidanceTime > 0
        THEN [dir |-> zombie.avoidanceDirection, zombie |-> zombie, scanned |-> FALSE]
        ELSE IF LengthSq(direction) = 0
        THEN [dir |-> direction, zombie |-> zombie, scanned |-> FALSE]
        ELSE IF zombie.pathfindCooldown > 0
        THEN [dir |-> direction, zombie |-> zombie, scanned |-> FALSE]
        ELSE IF found = 0
        THEN [dir |-> direction,
              zombie |-> [cooled EXCEPT !.isAvoidingObstacle = FALSE],
              scanned |-> TRUE]
        ELSE [dir |-> avoidanceDir,
              zombie |-> [cooled EXCEPT !.isAvoidingObstacle = TRUE,
                                        !.avoidanceTime = 300 + jitter,
                                        !.avoidanceDirection = avoidanceDir],
              scanned |-> TRUE]

----------------------------------------------------------------------------
(* ZombieManager.update and what it calls *)

\* updateZombieHitEffects, for one zombie
HitEffects(zombie, deltaTime) ==
    IF ~zombie.isHit THEN zombie
    ELSE LET t == zombie.hitFlashTime + deltaTime
         IN  [zombie EXCEPT !.hitFlashTime = t,
                            !.isHit = ~(t >= HitFlashDuration)]

\* handleChaseState: steer, move by direction * speed * deltaTime, bob
HandleChaseState(zombie, deltaTime, camera, obs, jitter, walkOffset) ==
    LET steer == GetAvoidanceDirection(zombie, camera, obs, jitter)
        z1 == steer.zombie
    IN  [z1 EXCEPT !.x = z1.x + DivT(steer.dir.x * z1.speed * deltaTime,
                                     UNIT * 1000),
                   !.z = z1.z + DivT(steer.dir.z * z1.speed * deltaTime,
                                     UNIT * 1000),
                   !.y = walkOffset]

\* CanAttack without the cooldown test
CanAttack_NoCooldown(zombie, currentTime) == TRUE

\* whether updateZombieAttack lets the zombie strike at this time
CanAttack(zombie, currentTime) ==
    currentTime - zombie.lastAttackTime >= zombie.attackCooldown

\* handleAttackState / updateZombieAttack: strike when the cooldown allows,
\* then advance the attack animation
HandleAttackState(zombie, deltaTime, currentTime) ==
    LET z1 == IF CanAttack(zombie, currentTime)
              THEN [zombie EXCEPT !.y = 0, !.attackProgress = 0,
                                  !.isCurrentlyAttacking = TRUE,
                                  !.lastAttackTime = currentTime]
              ELSE [zombie EXCEPT !.y = 0]
        progress == z1.attackProgress + deltaTime * 5
    IN  IF z1.isCurrentlyAttacking
        THEN [z1 EXCEPT !.attackProgress = progress,
                        !.isCurrentlyAttacking = ~(progress >= UNIT)]
        ELSE z1

\* InAttackRange with the hit range in place of the attack range
InAttackRange_HitRange(zombie, camera) ==
    LET dx == camera.x - zombie.x
        dz == camera.z - zombie.z
    IN  dx * dx + dz * dz <= zombie.hitRange * zombie.hitRange

\* the state-machine test of updateZombieAI
InAttackRange(zombie, camera) ==
    LET dx == camera.x - zombie.x
        dz == camera.z - zombie.z
    IN  dx * dx + dz * dz <= zombie.attackRange * zombie.attackRange

\* UpdateZombieAI without the scan cooldown's decrement
UpdateZombieAI_NoCooldown(zombie, deltaTime, camera, obs, currentTime, jitter, walkOffset) ==
    LET z1 == [zombie EXCEPT !.avoidanceTime = @ - deltaTime]
    IN  IF zombie.isDead THEN zombie
        ELSE IF InAttackRange(zombie, camera)
        THEN HandleAttackState(z1, deltaTime, currentTime)
        ELSE HandleChaseState(z1, deltaTime, camera, obs, jitter, walkOffset)

\* UpdateZombieAI without the avoidance timer's decrement
UpdateZombieAI_NoTimer(zombie, deltaTime, camera, obs, currentTime, jitter, walkOffset) ==
    LET z1 == [zombie EXCEPT !.pathfindCooldown = @ - deltaTime]
    IN  IF zombie.isDead THEN zombie
        ELSE IF InAttackRange(zombie, camera)
        THEN HandleAttackState(z1, deltaTime, currentTime)
        ELSE HandleChaseState(z1, deltaTime, camera, obs, jitter, walkOffset)

\* updateZombieAI for one zombie
UpdateZombieAI(zombie, deltaTime, camera, obs, currentTime, jitter, walkOffset) ==
    LET z1 == [zombie EXCEPT !.pathfindCooldown = @ - deltaTime,
                             !.avoidanceTime = @ - deltaTime]
    IN  IF zombie.isDead THEN zombie
        ELSE IF InAttackRange(zombie, camera)
        THEN HandleAttackState(z1, deltaTime, currentTime)
        ELSE HandleChaseState(z1, deltaTime, camera, obs, jitter, walkOffset)

\* AttackDamage without the isDead skip of update()
AttackDamage_DeadStrike(zombie, camera, currentTime) ==
    IF InAttackRange(zombie, camera) /\ CanAttack(zombie, currentTime)
    THEN zombie.damage ELSE 0

\* damage updateZombieAI makes the zombie deal to the player in this tick
AttackDamage(zombie, camera, currentTime) ==
    IF ~zombie.isDead /\ InAttackRange(zombie, camera) /\ CanAttack(zombie, currentTime)
    THEN zombie.damage ELSE 0

\* updateZombieDeathAnimation: advance the death sequence (progress kept in
\* ms of deltaTime, complete at DeathAnimationDuration); the body sinks
UpdateZombieDeathAnimation(zombie, deltaTime) ==
    LET acc == zombie.deathAnimationProgress + deltaTime
    IN  [zombie EXCEPT !.deathAnimationProgress = acc,
                       !.y = IF acc >= DeathAnimationDuration THEN -20
                             ELSE -DivT(20 * acc, DeathAnimationDuration)]

\* DeathComplete with the progress test as > 1.0
DeathComplete_Late(zombie) ==
    zombie.isDead /\ zombie.deathAnimationProgress > DeathAnimationDuration

\* the zombie test of removeDeadZombies
DeathComplete(zombie) ==
    zombie.isDead /\ zombie.deathAnimationProgress >= DeathAnimationDuration

\* a forward splice loop from index i on: after a splice the index still
\* advances, past the entry that moved into the gap
RECURSIVE ForwardSpliceFrom(_, _)
ForwardSpliceFrom(zs, i) ==
    IF i > Len(zs) THEN zs
    ELSE IF DeathComplete(zs[i])
    THEN ForwardSpliceFrom(SubSeq(zs, 1, i - 1) \o SubSeq(zs, i + 1, Len(zs)), i + 1)
    ELSE ForwardSpliceFrom(zs, i + 1)

\* RemoveDeadZombies with the loop running forward
RemoveDeadZombies_Forward(zs) == ForwardSpliceFrom(zs, 1)

\* removeDeadZombies: backward splice loop, survivors keep their order
RECURSIVE RemoveDeadZombies(_)
RemoveDeadZombies(zs) ==
    IF Len(zs) = 0 THEN zs
    ELSE LET front == RemoveDeadZombies(SubSeq(zs, 1, Len(zs) - 1))
             last == zs[Len(zs)]
         IN  IF DeathComplete(last) THEN front ELSE Append(front, last)

\* the roster after ZombieManager.update
UpdatedZombies(zs, deltaTime, camera, obs, currentTime, jitter, walkOffset) ==
    LET flashed == [i \in 1..Len(zs) |-> HitEffects(zs[i], deltaTime)]
        ticked == [i \in 1..Len(zs) |->
                     IF flashed[i].isDead
                     THEN UpdateZombieDeathAnimation(flashed[i], deltaTime)
                     ELSE UpdateZombieAI(flashed[i], deltaTime, camera, obs,
                                         currentTime, jitter, walkOffset)]
    IN  RemoveDeadZombies(ticked)

RECURSIVE SumDamage(_, _, _, _)
SumDamage(zs, camera, currentTime, i) ==
    IF i > Len(zs) THEN 0
    ELSE AttackDamage(zs[i], camera, currentTime)
           + SumDamage(zs, camera, currentTime, i + 1)

----------------------------------------------------------------------------
(* PlayerController *)

PlayerHeight == 170

\* null, for the health pack the player is looking at
NoPack == [id |-> 0]

\* TakeDamage without the cancelHealing call
TakeDamage_KeepsHealing(p, amount) ==
    [p EXCEPT !.health = IF p.health - amount < 0 THEN 0 ELSE p.health - amount]

\* takeDamage: cancel a heal in progress, lose health down to 0
TakeDamage(p, amount) ==
    [p EXCEPT !.isHealing = FALSE,
              !.health = IF p.health - amount < 0 THEN 0 ELSE p.health - amount]

\* the player after the takeDamage calls of one ZombieManager.update
PlayerAfterAttacks(p, total) == IF total = 0 THEN p ELSE TakeDamage(p, total)

\* HealthFull with the test as health > 100
HealthFull_Above(health) == health > 100

\* the full-health test of startHealing, tryUseHealthPack and beginHealing
HealthFull(health) == health >= 100

\* Capped without the Math.min
Capped_NoCap(health) == health

\* Math.min(100, health)
Capped(health) == IF health > 100 THEN 100 ELSE health

\* the value startHealing returns
StartHealingReturns(p) == ~HealthFull(p.health)

\* the player after startHealing(amount, duration) at currentTime
StartHealing(p, amount, duration, currentTime) ==
    IF HealthFull(p.health) THEN p
    ELSE [p EXCEPT !.isHealing = TRUE,
                   !.healAmount = amount,
                   !.healDuration = duration,
                   !.healProgress = 0,
                   !.healStartTime = currentTime,
                   !.healthBeforeHealing = p.health]

\* the player after updateHealing(deltaTime) at currentTime: progress in
\* 1/1000 from the clock, health raised by healAmount * deltaTime / healDuration
UpdateHealing(p, deltaTime, currentTime) ==
    IF ~p.isHealing THEN p
    ELSE LET elapsedTime == currentTime - p.healStartTime
             ratio == (elapsedTime * 1000) \div p.healDuration
             progress == IF ratio < 1000 THEN ratio ELSE 1000
             newHealing == (p.healAmount * deltaTime) \div p.healDuration
         IN  [p EXCEPT !.healProgress = progress,
                       !.health = Capped(p.health + newHealing),
                       !.isHealing = ~(progress >= 1000)]

\* the player after cancelHealing()
CancelHealing(p) == [p EXCEPT !.isHealing = FALSE]

\* the player after heal(amount)
Heal(p, amount) == [p EXCEPT !.health = Capped(p.health + amount)]

\* the cooldown update() gives the action key on its activation, ms
ActionKeyCooldown == 500

\* the action-key cooldown after the first step of update(): run down by
\* deltaTime while it is above 0
CooledDown(p, deltaTime) ==
    IF p.actionKeyCooldown > 0 THEN p.actionKeyCooldown - deltaTime
    ELSE p.actionKeyCooldown

\* update() sets actionKeyPressed on this call: E is held, the flag is
\* down and the cooldown has run out
Activates(p, e, deltaTime) ==
    e /\ ~p.actionKeyPressed /\ CooledDown(p, deltaTime) <= 0

\* variant: the flag is set although nothing has cooled down
Activates_NoCooldown(p, e, deltaTime) ==
    e /\ ~p.actionKeyPressed

\* the player after the action-key part of update(deltaTime) with E held
\* or not
UpdateActionKey(p, e, deltaTime) ==
    IF Activates(p, e, deltaTime)
    THEN [p EXCEPT !.actionKeyPressed = TRUE,
                   !.actionKeyCooldown = ActionKeyCooldown]
    ELSE IF ~e /\ p.actionKeyPressed
         THEN [p EXCEPT !.actionKeyPressed = FALSE,
                        !.actionKeyCooldown = CooledDown(p, deltaTime)]
         ELSE [p EXCEPT !.actionKeyCooldown = CooledDown(p, deltaTime)]

\* the player after consumeActionKeyPress()
ConsumeActionKeyPress(p) == [p EXCEPT !.actionKeyPressed = FALSE]

----------------------------------------------------------------------------
(* HealthPackManager *)

HEALTH_AMOUNT == 15
HEALING_DURATION == 2500
DESPAWN_TIME == 30000
LookAtRange == 500
LookAtThreshold == 950
PackHeight == 50
PackBaseHeight == 40

\* createHealthPack: the pack object with its userData
NewHealthPack(id, x, z, currentTime) ==
    [id |-> id, x |-> x, y |-> PackHeight, z |-> z,
     spawnTime |-> currentTime,
     healAmount |-> HEALTH_AMOUNT,
     healDuration |-> HEALING_DURATION,
     despawnTime |-> DESPAWN_TIME]

\* the pack is an element of the healthPacks array
Listed(packs, pack) == \E i \in 1..Len(packs) : packs[i].id = pack.id

\* a pack checkHealthPackLookAt accepts: within 5 units of the camera and
\* within the cone around the forward vector
LookedAt(pack, camera) ==
    LET toHealthPack == Vec(pack.x - camera.x, pack.y - camera.y, pack.z - camera.z)
    IN  /\ LengthSq(toHealthPack) <= LookAtRange * LookAtRange
        /\ Dot(Normalize(camera.forward), Normalize(toHealthPack))
             > LookAtThreshold * UNIT

\* the loop of checkHealthPackLookAt from index i on; best is the index of
\* closestHealthPack, 0 for null
RECURSIVE LookAtScan(_, _, _, _)
LookAtScan(packs, camera, i, best) ==
    IF i > Len(packs) THEN best
    ELSE LET toPack == Vec(packs[i].x - camera.x, packs[i].y - camera.y,
                           packs[i].z - camera.z)
             closer == \/ best = 0
                       \/ LengthSq(toPack)
                            < LengthSq(Vec(packs[best].x - camera.x,
                                           packs[best].y - camera.y,
                                           packs[best].z - camera.z))
         IN  IF LookedAt(packs[i], camera) /\ closer
             THEN LookAtScan(packs, camera, i + 1, i)
             ELSE LookAtScan(packs, camera, i + 1, best)

\* the pack checkHealthPackLookAt returns and stores, NoPack for null
CheckHealthPackLookAt(packs, camera) ==
    LET best == LookAtScan(packs, camera, 1, 0)
    IN  IF best = 0 THEN NoPack ELSE packs[best]

\* the pack list without the pack (indexOf and splice; a pack that is not in
\* the list leaves it as it is)
WithoutPack(packs, pack) == SelectSeq(packs, LAMBDA q : q.id /= pack.id)

\* the value beginHealing returns
BeginHealingReturns(p) == ~HealthFull(p.health)

\* the value tryUseHealthPack returns
TryUseReturns(p, looking, actionButtonPressed) ==
    /\ ~HealthFull(p.health)
    /\ looking /= NoPack
    /\ actionButtonPressed
    /\ BeginHealingReturns(p)

\* DROP_CHANCES, in percent
DROP_CHANCES == [regular |-> 15, runner |-> 20, tank |-> 30]

\* DropChance with no fallback for a type without an entry
DropChance_NoDefault(zombieType) ==
    LET type == IF zombieType = "" THEN "regular" ELSE zombieType
    IN  IF type \in DOMAIN DROP_CHANCES THEN DROP_CHANCES[type]
        ELSE 0

\* the drop chance spawnHealthPackAtZombie uses for a zombie of the type:
\* a missing type counts as regular, a type without an entry gets the
\* regular chance
DropChance(zombieType) ==
    LET type == IF zombieType = "" THEN "regular" ELSE zombieType
    IN  IF type \in DOMAIN DROP_CHANCES THEN DROP_CHANCES[type]
        ELSE DROP_CHANCES.regular

\* whether the roll (Math.random() in percent) spawns a pack
Drops(roll, dropChance) == ~(roll > dropChance)

\* the packs update() keeps: those not past their despawn time
RECURSIVE Despawned(_, _)
Despawned(packs, currentTime) ==
    IF Len(packs) = 0 THEN packs
    ELSE LET front == Despawned(SubSeq(packs, 1, Len(packs) - 1), currentTime)
             last == packs[Len(packs)]
         IN  IF currentTime - last.spawnTime > last.despawnTime THEN front
             ELSE Append(front, last)

----------------------------------------------------------------------------
(* The knife swing *)

SlashDuration == 200

\* the swing state after the frame's knife animation update
KnifeAfter(slashing, progress, deltaTime) ==
    IF ~slashing THEN [isSlashing |-> FALSE, slashProgress |-> progress]
    ELSE LET advanced == progress + (deltaTime * 1000) \div SlashDuration
         IN  IF advanced >= 1000
             THEN [isSlashing |-> FALSE, slashProgress |-> 0]
             ELSE [isSlashing |-> TRUE, slashProgress |-> advanced]

\* SwingStarts without the isSlashing test
SwingStarts_Always(slashing) == TRUE

\* the test of the mousedown handler: the press starts a swing
SwingStarts(slashing) == ~slashing

----------------------------------------------------------------------------
(* WaveManager *)

MinimumWaveTime == 5000
SpawnDelay == 2000
PlayerAttackDamage == 25

\* the authored wave table of the constructor
AuthoredWaves ==
    << [regularZombies |-> 5,  tankZombies |-> 0, runnerZombies |-> 0],
       [regularZombies |-> 7,  tankZombies |-> 0, runnerZombies |-> 2],
       [regularZombies |-> 7,  tankZombies |-> 1, runnerZombies |-> 2],
       [regularZombies |-> 8,  tankZombies |-> 1, runnerZombies |-> 3],
       [regularZombies |-> 9,  tankZombies |-> 2, runnerZombies |-> 5],
       [regularZombies |-> 10, tankZombies |-> 2, runnerZombies |-> 7],
       [regularZombies |-> 12, tankZombies |-> 3, runnerZombies |-> 10] >>

\* NewWaveConfig without the +1 and +2 added to the scaled counts
NewWaveConfig_NoBonus(lastWaveConfig) ==
    [regularZombies |-> (lastWaveConfig.regularZombies * 12) \div 10,
     tankZombies |-> (lastWaveConfig.tankZombies * 12) \div 10,
     runnerZombies |-> (lastWaveConfig.runnerZombies * 13) \div 10]

\* the harder configuration startNextWave synthesizes from the last entry
NewWaveConfig(lastWaveConfig) ==
    [regularZombies |-> (lastWaveConfig.regularZombies * 12) \div 10,
     tankZombies |-> (lastWaveConfig.tankZombies * 12) \div 10 + 1,
     runnerZombies |-> (lastWaveConfig.runnerZombies * 13) \div 10 + 2]

\* ExtendedTable with the length test as >=
ExtendedTable_Early(table, wave) ==
    IF wave >= Len(table) THEN Append(table, NewWaveConfig(table[Len(table)]))
    ELSE table

\* the table after startNextWave has made sure wave number `wave` has an entry
ExtendedTable(table, wave) ==
    IF wave > Len(table) THEN Append(table, NewWaveConfig(table[Len(table)]))
    ELSE table

WaveTotal(config) ==
    config.regularZombies + config.tankZombies + config.runnerZombies

\* GetSpawnPosition with the distance drawn from 0 up to maxDistance
GetSpawnPosition_NoMin(minDistance, maxDistance, quarter, fraction) ==
    LET distance == (fraction * maxDistance) \div 1000
        cos == CASE quarter = 0 -> 1 [] quarter = 2 -> -1 [] OTHER -> 0
        sin == CASE quarter = 1 -> 1 [] quarter = 3 -> -1 [] OTHER -> 0
    IN  [x |-> cos * distance, z |-> sin * distance]

\* getSpawnPosition: angle in quarter turns, fraction = Math.random() * 1000
GetSpawnPosition(minDistance, maxDistance, quarter, fraction) ==
    LET distance == minDistance + (fraction * (maxDistance - minDistance)) \div 1000
        cos == CASE quarter = 0 -> 1 [] quarter = 2 -> -1 [] OTHER -> 0
        sin == CASE quarter = 1 -> 1 [] quarter = 3 -> -1 [] OTHER -> 0
    IN  [x |-> cos * distance, z |-> sin * distance]

\* SpawnGroup with the loop stopping one zombie short
RECURSIVE SpawnGroup_OneShort(_, _, _, _, _)
SpawnGroup_OneShort(zs, id, count, pos, type) ==
    IF count <= 1 THEN zs
    ELSE SpawnGroup_OneShort(CreateZombieIn(zs, id, pos.x, pos.z, type), id + 1,
                             count - 1, pos, type)

\* the spawn loops of spawnWaveZombies: count zombies of one type appended
RECURSIVE SpawnGroup(_, _, _, _, _)
SpawnGroup(zs, id, count, pos, type) ==
    IF count = 0 THEN zs
    ELSE SpawnGroup(CreateZombieIn(zs, id, pos.x, pos.z, type), id + 1,
                    count - 1, pos, type)

\* spawnWaveZombies: empty the roster, then create the wave's zombies
SpawnWaveZombies(id, waveConfig, quarter, fraction) ==
    LET regulars == SpawnGroup(<<>>, id, waveConfig.regularZombies,
                       GetSpawnPosition(4000, 6000, quarter, fraction), "regular")
        tanks == SpawnGroup(regulars, id + waveConfig.regularZombies,
                       waveConfig.tankZombies,
                       GetSpawnPosition(5000, 7000, quarter, fraction), "tank")
    IN  SpawnGroup(tanks,
                   id + waveConfig.regularZombies + waveConfig.tankZombies,
                   waveConfig.runnerZombies,
                   GetSpawnPosition(3500, 5500, quarter, fraction), "runner")

\* LivingCount with the dead entries awaiting removal counted as well
LivingCount_WholeRoster(zs) == Len(zs)

\* the filter of update(): roster entries that are not dead
LivingCount(zs) == Cardinality({i \in 1..Len(zs) : ~zs[i].isDead})

\* WaveComplete without the living-enemy count
WaveComplete_NoCount(currentZombieCount, waveElapsedTime) ==
    waveElapsedTime > MinimumWaveTime

\* WaveComplete with the floor test as >=
WaveComplete_AtFloor(currentZombieCount, waveElapsedTime) ==
    currentZombieCount = 0 /\ waveElapsedTime >= MinimumWaveTime

\* WaveComplete without the minimum wave time
WaveComplete_NoFloor(currentZombieCount, waveElapsedTime) ==
    currentZombieCount = 0

\* the completion test of update()
WaveComplete(currentZombieCount, waveElapsedTime) ==
    currentZombieCount = 0 /\ waveElapsedTime > MinimumWaveTime

\* the value update() returns
UpdateReturns(active, zs, elapsed) ==
    active /\ WaveComplete(LivingCount(zs), elapsed)

\* ActiveAfterUpdate without the waveActive = false of a completed wave
ActiveAfterUpdate_Stuck(active, result) == active

\* waveActive after update() has returned `result`
ActiveAfterUpdate(active, result) == IF result THEN FALSE ELSE active

----------------------------------------------------------------------------
(* Inputs the model draws from *)

WaveDeltaTimes == {1000}            \* frame lengths of the wave scenarios, ms
SwingDeltaTimes == {100}            \* frame lengths of the swing scenario, ms
AttackDeltaTimes == {500, 750}      \* frame lengths of the attack scenario, ms
AttackHealths == {100, 10}          \* player health when the enemies arrive
CombatDeltaTimes == {500, 1000}          \* frame lengths of the combat scenario, ms
WalkOffsets == {0}                  \* the walk bob of a frame, cm
AvoidanceJitters == {0}             \* Math.random() * 0.2 s, ms
SpawnQuarters == {0}                \* spawn angles, quarter turns
TableDeltaTimes == {2000}           \* the frames of the spawn delay, as one, ms
TableQuarters == {0, 1, 2, 3}       \* spawn angles, quarter turns
TableFractions == {0, 500, 999}     \* Math.random() of the spawn distance, 1/1000
SpawnFractions == {0}               \* Math.random() of the spawn distance, 1/1000
Damages == {25, 90}                 \* damage amounts of direct damageZombie calls
LethalDamages == {200}              \* damage amounts that kill any zombie at once
AvoidDeltaTimes == {50, 100, 200}   \* frame lengths of the steering scenario, ms
AvoidJitters == {0, 150}            \* Math.random() * 0.2 s of a direct call, ms
\* where the steering scenario creates its enemy
AvoidPoints == {[x |-> 300, z |-> 0], [x |-> 300, z |-> 100],
                [x |-> 250, z |-> -150], [x |-> 0, z |-> 330],
                [x |-> 351, z |-> 0], [x |-> 350, z |-> 0]}
\* the obstacle lists of the steering scenario: none, a rock on the way to the
\* player, rocks beside the way, an entry without a radius, a tree on
\* the way to the player, two rocks ahead with the nearer one listed last,
\* and six rocks ahead with the nearest listed last
AvoidObstacleLists ==
    { << >>,
      << [x |-> 150, z |-> 0, radius |-> 100] >>,
      << [x |-> 150, z |-> 0, radius |-> 50] >>,
      << [x |-> 200, z |-> 50, radius |-> 50], [x |-> 0, z |-> 200, radius |-> 30] >>,
      << [x |-> 250, z |-> 0, radius |-> 0], [x |-> 200, z |-> -100, radius |-> 50] >>,
      << [x |-> 120, z |-> 0, radius |-> 50], [x |-> 250, z |-> 0, radius |-> 50] >>,
      << [x |-> 120, z |-> 0, radius |-> 30], [x |-> 130, z |-> 0, radius |-> 30],
         [x |-> 140, z |-> 0, radius |-> 30], [x |-> 150, z |-> 10, radius |-> 30],
         [x |-> 160, z |-> 0, radius |-> 30], [x |-> 250, z |-> 0, radius |-> 30] >> }
PackDeltaTimes == {15000}           \* frame lengths of the pickup scenario, ms
PackBobs == {0}                     \* the float offset of a pack in a frame, cm
\* where enemies die in the pickup scenario: two places ahead of the player,
\* one to the side
PackPoints == {[x |-> 0, z |-> -450], [x |-> 0, z |-> -470], [x |-> 300, z |-> 0]}
PackTypes == {"regular"}            \* who dies in the pickup scenario
PackRolls == {15, 16}               \* Math.random() of its drop roll, percent
DropTypes == {"regular", "runner", "tank", "boss", ""}
DropRolls == {0, 15, 16, 20, 21, 30, 31, 99}   \* Math.random(), percent
PackHealAmounts == {15}             \* amounts of direct startHealing calls
PackHealDurations == {2500}         \* durations of direct startHealing calls, ms
PackDamages == {40}                 \* amounts of direct takeDamage calls
HealAmounts == {0, 20, 120}         \* amounts of heal and startHealing calls
HealDurations == {500}              \* durations of startHealing calls, ms
HealDamages == {0, 50, 130}         \* amounts of takeDamage calls
HealDeltaTimes == {0, 500}          \* frame lengths of the healing scenario, ms
HealRunDeltaTimes == {200, 500}     \* frame lengths of the heals run to the end, ms
CombatPoints == {[x |-> 200, z |-> 0]}
\* a rock between CombatPoints and the player
CombatObstacles == << [x |-> 100, z |-> 0, radius |-> 50] >>
HitPoints == {[x |-> 200, z |-> 0], [x |-> 300, z |-> 0], [x |-> 0, z |-> -200],
              [x |-> 150, z |-> -200]}

Forward(x, y, z) == Vec(x, y, z)

\* camera poses of the wave scenario: 2 m short of the regular zombies' spawn
\* point, looking at it (+x) and looking back (-x) at zombies that walked past
WavePoses ==
    { [x |-> 3800, y |-> PlayerHeight, z |-> 0, forward |-> Forward(UNIT, 0, 0)],
      [x |-> 3800, y |-> PlayerHeight, z |-> 0, forward |-> Forward(-UNIT, 0, 0)] }

\* camera poses of the combat scenario
CombatPoses ==
    { [x |-> 0, y |-> PlayerHeight, z |-> 0, forward |-> Forward(UNIT, 0, 0)],
      [x |-> 0, y |-> PlayerHeight, z |-> 0, forward |-> Forward(0, 0, -UNIT)],
      [x |-> 0, y |-> PlayerHeight, z |-> 0, forward |-> Forward(600, 0, -800)] }

----------------------------------------------------------------------------
(* State after construction *)

InitPlayer ==
    [x |-> 0, y |-> PlayerHeight, z |-> 0, forward |-> Forward(0, 0, -UNIT),
     health |-> 100, isHealing |-> FALSE, healAmount |-> 0,
     healDuration |-> 0, healProgress |-> 0, healStartTime |-> 0,
     healthBeforeHealing |-> 0, actionKeyPressed |-> FALSE,
     actionKeyCooldown |-> 0]

\* GameState constructor: no key is held (of the keys, the model tracks E)
InitKeys == [e |-> FALSE]

NoActivations == [hold |-> 0, last |-> -1]

Init ==
    /\ now = 0
    /\ zombies = <<>>
    /\ nextId = 1
    /\ player = InitPlayer
    /\ obstacles = <<>>
    /\ healthPacks = <<>>
    /\ lookingAtHealthPack = NoPack
    /\ nextPackId = 1
    /\ waveConfigurations = AuthoredWaves
    /\ currentWave = 0
    /\ waveActive = FALSE
    /\ waveStartTime = 0
    /\ zombiesRemaining = 0
    /\ timers = <<>>
    /\ score = 0
    /\ generation = 0
    /\ trueReturns = 0
    /\ isSlashing = FALSE
    /\ slashProgress = 0
    /\ swingHits = 0
    /\ ret = [op |-> "constructor"]
    /\ keys = InitKeys
    /\ activations = NoActivations

\* rosters of n zombies that createZombie calls build at CombatPoints
RECURSIVE CreatedRosters(_)
CreatedRosters(n) ==
    IF n = 0 THEN {<<>>}
    ELSE {CreateZombieIn(zs, n, pos.x, pos.z, type) :
            zs \in CreatedRosters(n - 1), pos \in CombatPoints,
            type \in ZombieTypes}

\* the combat scenario starts with the enemies created
InitCombat ==
    /\ now = 0
    /\ \E n \in 1..MaxZombies : /\ zombies \in CreatedRosters(n)
                                /\ nextId = n + 1
    /\ player = InitPlayer
    /\ obstacles = CombatObstacles
    /\ healthPacks = <<>>
    /\ lookingAtHealthPack = NoPack
    /\ nextPackId = 1
    /\ waveConfigurations = AuthoredWaves
    /\ currentWave = 0
    /\ waveActive = FALSE
    /\ waveStartTime = 0
    /\ zombiesRemaining = 0
    /\ timers = <<>>
    /\ score = 0
    /\ generation = 0
    /\ trueReturns = 0
    /\ isSlashing = FALSE
    /\ slashProgress = 0
    /\ swingHits = 0
    /\ ret = [op |-> "createZombie"]
    /\ keys = InitKeys
    /\ activations = NoActivations

----------------------------------------------------------------------------
(* WaveManager operations *)

\* the body of startNextWave, entered with the wave counter at `wave`
BeginWave(wave, gen) ==
    LET table == ExtendedTable(waveConfigurations, wave + 1)
        waveConfig == table[wave + 1]
    IN  /\ currentWave' = wave + 1
        /\ waveConfigurations' = table
        /\ waveActive' = TRUE
        /\ waveStartTime' = now
        /\ zombiesRemaining' = WaveTotal(waveConfig)
        /\ timers' = Append(timers, [due |-> now + SpawnDelay,
                                     waveConfig |-> waveConfig,
                                     wave |-> wave + 1,
                                     generation |-> gen])
        /\ generation' = gen
        /\ trueReturns' = 0

\* startGame(): reset the wave counter and start wave 1
StartGameWithin(calls) ==
    /\ generation < calls
    /\ BeginWave(0, generation + 1)
    /\ ret' = [op |-> "startGame"]
    /\ UNCHANGED <<now, zombies, nextId, player, obstacles, akVars, hpVars, wsVars, score>>

\* the game starts once
StartGame == StartGameWithin(1)

\* the game starts, and is reset while running
RestartGame == StartGameWithin(1 + MaxRestarts)

\* startNextWave(), called once update() has reported the wave clear
StartNextWave ==
    /\ generation > 0
    /\ ~waveActive
    /\ currentWave < MaxWave
    /\ BeginWave(currentWave, generation)
    /\ ret' = [op |-> "startNextWave"]
    /\ UNCHANGED <<now, zombies, nextId, player, obstacles, akVars, hpVars, wsVars, score>>

\* index of the timer the event loop runs next: the earliest due, first queued
NextTimer ==
    CHOOSE i \in 1..Len(timers) :
        /\ \A j \in 1..Len(timers) : timers[i].due <= timers[j].due
        /\ \A j \in 1..(i - 1) : timers[j].due > timers[i].due

RemoveAt(seq, i) == SubSeq(seq, 1, i - 1) \o SubSeq(seq, i + 1, Len(seq))

\* the delayed callback of startNextWave runs: spawnWaveZombies(waveConfig)
SpawnCallbackWith(quarters, fractions) ==
    /\ Len(timers) > 0
    /\ timers[NextTimer].due <= now
    /\ \E quarter \in quarters, fraction \in fractions :
         LET timer == timers[NextTimer]
             spawned == SpawnWaveZombies(nextId, timer.waveConfig, quarter, fraction)
         IN  /\ zombies' = spawned
             /\ nextId' = nextId + Len(spawned)
             /\ timers' = RemoveAt(timers, NextTimer)
             /\ ret' = [op |-> "spawnWaveZombies",
                        wave |-> timer.wave,
                        waveConfig |-> timer.waveConfig,
                        firstId |-> nextId,
                        stale |-> timer.generation /= generation,
                        before |-> Len(zombies),
                        livingBefore |-> LivingCount(zombies),
                        created |-> Len(spawned),
                        rosterChanged |-> spawned /= zombies]
    /\ UNCHANGED <<now, player, obstacles, akVars, hpVars, wsVars, score, waveConfigurations, currentWave,
                   waveActive, waveStartTime, zombiesRemaining, generation,
                   trueReturns>>

\* the callback with every zombie of the wave on one draw of the wave scenarios
SpawnCallback == SpawnCallbackWith(SpawnQuarters, SpawnFractions)

\* WaveManager.update()
WaveUpdate ==
    LET count == LivingCount(zombies)
        elapsed == now - waveStartTime
        result == UpdateReturns(waveActive, zombies, elapsed)
    IN  /\ waveActive' = ActiveAfterUpdate(waveActive, result)
        /\ zombiesRemaining' = IF waveActive THEN count ELSE zombiesRemaining
        /\ trueReturns' = IF result /\ trueReturns < 2 THEN trueReturns + 1
                          ELSE trueReturns
        /\ ret' = [op |-> "update", val |-> result, wasActive |-> waveActive]
        /\ UNCHANGED <<now, zombies, nextId, player, obstacles, akVars, hpVars, wsVars, score,
                       waveConfigurations, currentWave, waveStartTime, timers,
                       generation>>

----------------------------------------------------------------------------
(* ZombieManager operations *)

\* a frame: deltaTime passes on the clock and ZombieManager.update runs.
\* A timer that is due runs before the clock moves past it.
Frame(deltaTimes, limit) ==
    /\ \E deltaTime \in deltaTimes, jitter \in AvoidanceJitters,
          walkOffset \in WalkOffsets :
         /\ now + deltaTime <= limit
         /\ \A i \in 1..Len(timers) : timers[i].due >= now + deltaTime
         /\ now' = now + deltaTime
         /\ zombies' = UpdatedZombies(zombies, deltaTime, player, obstacles,
                                      now + deltaTime, jitter, walkOffset)
         /\ player' = PlayerAfterAttacks(player,
                         SumDamage(zombies, player, now + deltaTime, 1))
         /\ isSlashing' = KnifeAfter(isSlashing, slashProgress, deltaTime).isSlashing
         /\ slashProgress' =
                KnifeAfter(isSlashing, slashProgress, deltaTime).slashProgress
         /\ ret' = [op |-> "zombieUpdate", deltaTime |-> deltaTime]
    /\ UNCHANGED <<nextId, obstacles, akVars, hpVars, swingHits, score>>
    /\ UNCHANGED wmVars

\* the roster with the zombie at index i replaced
WithZombie(zs, i, zombie) == [zs EXCEPT ![i] = zombie]

\* the player moves and turns (input collaborator)
MovePlayer(poses) ==
    /\ \E pose \in poses :
         /\ pose /= [x |-> player.x, y |-> player.y, z |-> player.z,
                     forward |-> player.forward]
         /\ player' = [player EXCEPT !.x = pose.x, !.y = pose.y, !.z = pose.z,
                                     !.forward = pose.forward]
    /\ ret' = [op |-> "movePlayer"]
    /\ UNCHANGED <<now, zombies, nextId, obstacles, akVars, hpVars, wsVars, score>>
    /\ UNCHANGED wmVars

\* a weapon swing: checkZombieHit, then damageZombie on the zombie it returned
PlayerAttack ==
    \E hit \in {CheckZombieHit(zombies, player)} :
      LET killed == hit /= 0 /\ DamageKills(zombies[hit], PlayerAttackDamage)
      IN
        /\ zombies' = IF hit /= 0 /\ ~zombies[hit].isDead
                      THEN WithZombie(zombies, hit,
                               KillStamped(zombies[hit],
                                   DamagedZombie(zombies[hit], PlayerAttackDamage),
                                   now))
                      ELSE zombies
        /\ score' = IF hit = 0 THEN score
                    ELSE score + KillScore(zombies[hit], killed)
        /\ ret' = [op |-> "playerAttack",
                   hit |-> IF hit = 0 THEN 0 ELSE zombies[hit].id,
                   killed |-> killed]
        /\ UNCHANGED <<now, nextId, player, obstacles, akVars, hpVars, wsVars>>
        /\ UNCHANGED wmVars

\* a mousedown event: the handler starts a swing unless one is in progress,
\* and the press that starts it tests for a hit and damages the enemy found
MouseDown ==
    \E hit \in {CheckZombieHit(zombies, player)} :
      LET starts == SwingStarts(isSlashing)
          damages == starts /\ hit /= 0 /\ ~zombies[hit].isDead
          killed == damages /\ DamageKills(zombies[hit], PlayerAttackDamage)
          counted == IF isSlashing THEN swingHits ELSE 0
      IN
        /\ isSlashing' = IF starts THEN TRUE ELSE isSlashing
        /\ slashProgress' = IF starts THEN 0 ELSE slashProgress
        /\ zombies' = IF damages
                      THEN WithZombie(zombies, hit,
                               KillStamped(zombies[hit],
                                   DamagedZombie(zombies[hit], PlayerAttackDamage),
                                   now))
                      ELSE zombies
        /\ score' = IF damages THEN score + KillScore(zombies[hit], killed)
                    ELSE score
        /\ swingHits' = IF damages /\ counted < 2 THEN counted + 1 ELSE counted
        /\ ret' = [op |-> "mousedown", wasSlashing |-> isSlashing,
                   progress |-> slashProgress, before |-> zombies,
                   hit |-> IF damages THEN zombies[hit].id ELSE 0]
        /\ UNCHANGED <<now, nextId, player, obstacles, akVars, hpVars>>
        /\ UNCHANGED wmVars

\* createZombie(x, z, type) called directly
CreateZombie(points, types, limit) ==
    /\ Len(zombies) < limit
    /\ nextId <= limit
    /\ \E pos \in points, type \in types :
         zombies' = CreateZombieIn(zombies, nextId, pos.x, pos.z, type)
    /\ nextId' = nextId + 1
    /\ ret' = [op |-> "createZombie"]
    /\ UNCHANGED <<now, player, obstacles, akVars, hpVars, wsVars, score>>
    /\ UNCHANGED wmVars

\* checkZombieHit(camera) called directly
CheckHit ==
    /\ ret' = [op |-> "checkZombieHit",
               hit |-> LET hit == CheckZombieHit(zombies, player)
                       IN  IF hit = 0 THEN 0 ELSE zombies[hit].id]
    /\ UNCHANGED <<now, zombies, nextId, player, obstacles, akVars, hpVars, wsVars, score>>
    /\ UNCHANGED wmVars

\* hits an enemy has taken at health <= 0 (bounds the health range)
Overkill(zombie) ==
    IF zombie.health > 0 THEN 0 ELSE (-zombie.health) \div PlayerAttackDamage

\* damageZombie(zombie, damage, camera) called directly on a roster entry,
\* through the wave manager's scoring patch
DamageZombie(damages) ==
    \E i \in 1..Len(zombies), damage \in damages :
        LET zombie == zombies[i]
            wasKilled == DamageKills(zombie, damage)
        IN  /\ Overkill(zombie) < MaxOverkill
            /\ zombies' = WithZombie(zombies, i,
                              KillStamped(zombie, DamagedZombie(zombie, damage), now))
            /\ score' = score + KillScore(zombie, wasKilled)
            /\ ret' = [op |-> "damageZombie", id |-> zombie.id,
                       damage |-> damage, val |-> wasKilled, before |-> zombie]
            /\ UNCHANGED <<now, nextId, player, obstacles, akVars, hpVars, wsVars>>
            /\ UNCHANGED wmVars

\* damageZombie as the swing calls it: on an enemy that is not dead
DamageLiving(damages) ==
    \E i \in 1..Len(zombies), damage \in damages :
        LET zombie == zombies[i]
            wasKilled == DamageKills(zombie, damage)
        IN  /\ ~zombie.isDead
            /\ zombies' = WithZombie(zombies, i,
                              KillStamped(zombie, DamagedZombie(zombie, damage), now))
            /\ score' = score + KillScore(zombie, wasKilled)
            /\ ret' = [op |-> "damageZombie", id |-> zombie.id,
                       damage |-> damage, val |-> wasKilled, before |-> zombie]
            /\ UNCHANGED <<now, nextId, player, obstacles, akVars, hpVars, wsVars>>
            /\ UNCHANGED wmVars

----------------------------------------------------------------------------
(* Specifications *)

\* the wave lifecycle: WaveManager driving ZombieManager
NextWave ==
    \/ StartGame
    \/ StartNextWave
    \/ SpawnCallback
    \/ WaveUpdate
    \/ Frame(WaveDeltaTimes, MaxFrames * 1000)
    \/ MovePlayer(WavePoses)
    \/ PlayerAttack

SpecWave == Init /\ [][NextWave]_vars

\* combat: ZombieManager called directly
NextCombat ==
    \/ DamageZombie(Damages)
    \/ Frame(CombatDeltaTimes, MaxCombatTime)

SpecCombat == InitCombat /\ [][NextCombat]_vars

\* hit tests: the player turns and swings among enemies, some of them dead
NextHit ==
    \/ CreateZombie(HitPoints, {"regular", "tank"}, MaxTargets)
    \/ DamageZombie(LethalDamages)
    \/ MovePlayer(CombatPoses)
    \/ CheckHit
    \/ Frame(WaveDeltaTimes, MaxHitTime)

SpecHit == Init /\ [][NextHit]_vars

\* the swing scenario starts with the enemies created in front of the player
InitSwing ==
    /\ now = 0
    /\ \E n \in 1..MaxSwingTargets : /\ zombies \in CreatedRosters(n)
                                     /\ nextId = n + 1
    /\ player = [InitPlayer EXCEPT !.forward = Forward(UNIT, 0, 0)]
    /\ obstacles = <<>>
    /\ healthPacks = <<>>
    /\ lookingAtHealthPack = NoPack
    /\ nextPackId = 1
    /\ waveConfigurations = AuthoredWaves
    /\ currentWave = 0
    /\ waveActive = FALSE
    /\ waveStartTime = 0
    /\ zombiesRemaining = 0
    /\ timers = <<>>
    /\ score = 0
    /\ generation = 0
    /\ trueReturns = 0
    /\ isSlashing = FALSE
    /\ slashProgress = 0
    /\ swingHits = 0
    /\ ret = [op |-> "createZombie"]
    /\ keys = InitKeys
    /\ activations = NoActivations

\* knife swings: mouse presses between frames, enemies in range
NextSwing ==
    \/ MouseDown
    \/ Frame(SwingDeltaTimes, MaxSwingTime)

SpecSwing == InitSwing /\ [][NextSwing]_vars

\* the attack scenario starts with the enemies created 2 m from the player,
\* nothing in between, the player at full or at low health
InitAttack ==
    /\ now = 0
    /\ \E n \in 1..MaxAttackers : /\ zombies \in CreatedRosters(n)
                                  /\ nextId = n + 1
    /\ \E health \in AttackHealths :
         player = [InitPlayer EXCEPT !.forward = Forward(UNIT, 0, 0),
                                     !.health = health]
    /\ obstacles = <<>>
    /\ healthPacks = <<>>
    /\ lookingAtHealthPack = NoPack
    /\ nextPackId = 1
    /\ waveConfigurations = AuthoredWaves
    /\ currentWave = 0
    /\ waveActive = FALSE
    /\ waveStartTime = 0
    /\ zombiesRemaining = 0
    /\ timers = <<>>
    /\ score = 0
    /\ generation = 0
    /\ trueReturns = 0
    /\ isSlashing = FALSE
    /\ slashProgress = 0
    /\ swingHits = 0
    /\ ret = [op |-> "createZombie"]
    /\ keys = InitKeys
    /\ activations = NoActivations

\* enemies close in on the player and strike; the player kills some
NextAttack ==
    \/ DamageLiving(LethalDamages)
    \/ Frame(AttackDeltaTimes, MaxAttackTime)

SpecAttack == InitAttack /\ [][NextAttack]_vars

\* a frame of the attack scenario, by what it does to the clock
AttackTick ==
    \E deltaTime \in AttackDeltaTimes :
        now + deltaTime <= MaxAttackTime /\ now' = now + deltaTime

\* the animation loop keeps running frames
SpecAttackFair == SpecAttack /\ WF_now(AttackTick)

\* the steering scenario starts with one enemy created among the obstacles
InitAvoid ==
    /\ now = 0
    /\ \E pos \in AvoidPoints, type \in ZombieTypes :
         zombies = CreateZombieIn(<<>>, 1, pos.x, pos.z, type)
    /\ nextId = 2
    /\ player = InitPlayer
    /\ obstacles \in AvoidObstacleLists
    /\ healthPacks = <<>>
    /\ lookingAtHealthPack = NoPack
    /\ nextPackId = 1
    /\ waveConfigurations = AuthoredWaves
    /\ currentWave = 0
    /\ waveActive = FALSE
    /\ waveStartTime = 0
    /\ zombiesRemaining = 0
    /\ timers = <<>>
    /\ score = 0
    /\ generation = 0
    /\ trueReturns = 0
    /\ isSlashing = FALSE
    /\ slashProgress = 0
    /\ swingHits = 0
    /\ ret = [op |-> "createZombie"]
    /\ keys = InitKeys
    /\ activations = NoActivations

\* getAvoidanceDirection(zombie, targetPos, obstacles) called on a living
\* zombie, toward the player or toward the zombie's own position
AvoidanceCall ==
    /\ \E i \in 1..Len(zombies), jitter \in AvoidJitters :
         \E targetPos \in {[x |-> player.x, z |-> player.z],
                           [x |-> zombies[i].x, z |-> zombies[i].z]} :
           \E steer \in {GetAvoidanceDirection(zombies[i], targetPos, obstacles,
                                               jitter)} :
             /\ zombies' = WithZombie(zombies, i, steer.zombie)
             /\ ret' = [op |-> "getAvoidanceDirection",
                        dir |-> steer.dir,
                        before |-> zombies[i],
                        after |-> steer.zombie,
                        scanned |-> steer.scanned]
    /\ UNCHANGED <<now, nextId, player, obstacles, akVars, hpVars, wsVars, score>>
    /\ UNCHANGED wmVars

\* an enemy steers around rocks toward the player
NextAvoid ==
    \/ AvoidanceCall
    \/ Frame(AvoidDeltaTimes, MaxAvoidTime)

SpecAvoid == InitAvoid /\ [][NextAvoid]_vars

\* startNextWave() called at any time, up to a wave number
StartNextWaveBelow(limit) ==
    /\ generation > 0
    /\ currentWave < limit
    /\ BeginWave(currentWave, generation)
    /\ ret' = [op |-> "startNextWave"]
    /\ UNCHANGED <<now, zombies, nextId, player, obstacles, akVars, hpVars, wsVars, score>>

StartNextWaveAnytime == StartNextWaveBelow(MaxWave)

\* the wave table: waves started one after the other past the authored
\* entries, the game reset in between
NextTable ==
    \/ RestartGame
    \/ StartNextWaveBelow(MaxTableWave)
    \/ SpawnCallback
    \/ Frame(TableDeltaTimes, MaxTableTime)

SpecTable == Init /\ [][NextTable]_vars

\* spawns: the waves of one game spawned on top of each other, each on its own
\* draw of angle and distance
NextSpawn ==
    \/ StartGame
    \/ StartNextWaveBelow(MaxSpawnWave)
    \/ SpawnCallbackWith(TableQuarters, TableFractions)
    \/ Frame(TableDeltaTimes, MaxTableTime)

SpecSpawn == Init /\ [][NextSpawn]_vars

\* a roster entry that has the userData of a zombie
WellFormed(zombie) == "isDead" \in DOMAIN zombie

HasMalformed(zs) == \E i \in 1..Len(zs) : ~WellFormed(zs[i])

\* index of the first roster entry without userData
FirstMalformed(zs) ==
    CHOOSE i \in 1..Len(zs) :
        ~WellFormed(zs[i]) /\ \A j \in 1..(i - 1) : WellFormed(zs[j])

\* a caller pushes an object without userData on the array getZombies() hands out
PushMalformed ==
    /\ ~HasMalformed(zombies)
    /\ zombies' = Append(zombies, [id |-> nextId])
    /\ nextId' = nextId + 1
    /\ ret' = [op |-> "push"]
    /\ UNCHANGED <<now, player, obstacles, akVars, hpVars, wsVars, score>>
    /\ UNCHANGED wmVars

\* a frame with an entry without userData in the roster: the loop of
\* updateZombieHitEffects throws on reading userData.isHit of that entry, and
\* update() is left before the AI loop and removeDeadZombies
AbortedFrame(deltaTimes, limit) ==
    /\ HasMalformed(zombies)
    /\ \E deltaTime \in deltaTimes :
         /\ now + deltaTime <= limit
         /\ now' = now + deltaTime
         /\ zombies' = [i \in 1..Len(zombies) |->
                          IF i < FirstMalformed(zombies)
                          THEN HitEffects(zombies[i], deltaTime)
                          ELSE zombies[i]]
         /\ ret' = [op |-> "zombieUpdate", deltaTime |-> deltaTime, threw |-> TRUE]
    /\ UNCHANGED <<nextId, player, obstacles, akVars, hpVars, wsVars, score>>
    /\ UNCHANGED wmVars

\* enemies close in on the player, some are killed, and a caller leaves an
\* object without userData in the roster
NextMalformed ==
    \/ ~HasMalformed(zombies) /\ DamageLiving(LethalDamages)
    \/ PushMalformed
    \/ ~HasMalformed(zombies) /\ Frame(AttackDeltaTimes, MaxAttackTime)
    \/ AbortedFrame(AttackDeltaTimes, MaxAttackTime)

SpecMalformed == InitAttack /\ [][NextMalformed]_vars

\* spawnHealthPackAtZombie(zombie, scene) for a zombie of createZombie
SpawnHealthPackAtZombie(points, types, rolls) ==
    /\ nextPackId <= MaxPacks
    /\ \E pos \in points, type \in types, roll \in rolls :
         LET zombie == NewZombie(0, pos.x, pos.z, type)
             dropChance == DropChance(zombie.zombieType)
             dropped == Drops(roll, dropChance)
         IN  /\ healthPacks' =
                    IF dropped
                    THEN Append(healthPacks,
                                NewHealthPack(nextPackId, zombie.x, zombie.z, now))
                    ELSE healthPacks
             /\ nextPackId' = IF dropped THEN nextPackId + 1 ELSE nextPackId
             /\ ret' = [op |-> "spawnHealthPackAtZombie",
                        zombieType |-> zombie.zombieType,
                        roll |-> roll, dropChance |-> dropChance,
                        val |-> dropped]
    /\ UNCHANGED <<now, zombies, nextId, player, obstacles, akVars, lookingAtHealthPack,
                   wsVars, score>>
    /\ UNCHANGED wmVars

\* checkHealthPackLookAt(camera)
CheckLookAt ==
    /\ lookingAtHealthPack' = CheckHealthPackLookAt(healthPacks, player)
    /\ ret' = [op |-> "checkHealthPackLookAt",
               pack |-> CheckHealthPackLookAt(healthPacks, player).id]
    /\ UNCHANGED <<now, zombies, nextId, player, obstacles, akVars, healthPacks,
                   nextPackId, wsVars, score>>
    /\ UNCHANGED wmVars

\* beginHealing(player, healthPack): what it does to the pack list and the
\* player
BeginHealing(healthPack) ==
    IF HealthFull(player.health)
    THEN UNCHANGED <<healthPacks, player>>
    ELSE /\ healthPacks' = WithoutPack(healthPacks, healthPack)
         /\ player' = StartHealing(player, healthPack.healAmount,
                                   healthPack.healDuration, now)

\* tryUseHealthPack(player, actionButtonPressed)
TryUseHealthPack ==
    /\ \E actionButtonPressed \in BOOLEAN :
         LET used == TryUseReturns(player, lookingAtHealthPack, actionButtonPressed)
         IN  /\ IF used THEN BeginHealing(lookingAtHealthPack)
                ELSE UNCHANGED <<healthPacks, player>>
             /\ ret' = [op |-> "tryUseHealthPack", val |-> used,
                        pressed |-> actionButtonPressed,
                        pack |-> lookingAtHealthPack.id,
                        wasListed |-> Listed(healthPacks, lookingAtHealthPack),
                        before |-> player]
    /\ UNCHANGED <<now, zombies, nextId, obstacles, akVars, lookingAtHealthPack,
                   nextPackId, wsVars, score>>
    /\ UNCHANGED wmVars

\* beginHealing(player, healthPack) called directly with a pack of the list
BeginHealingCall ==
    /\ \E i \in 1..Len(healthPacks) :
         /\ BeginHealing(healthPacks[i])
         /\ ret' = [op |-> "beginHealing", val |-> BeginHealingReturns(player),
                    pressed |-> TRUE,
                    pack |-> healthPacks[i].id, wasListed |-> TRUE,
                    before |-> player]
    /\ UNCHANGED <<now, zombies, nextId, obstacles, akVars, lookingAtHealthPack,
                   nextPackId, wsVars, score>>
    /\ UNCHANGED wmVars

\* player.startHealing(amount, duration) called directly
StartHealingCall(amounts, durations) ==
    /\ \E amount \in amounts, duration \in durations :
         /\ player' = StartHealing(player, amount, duration, now)
         /\ ret' = [op |-> "startHealing", val |-> StartHealingReturns(player),
                    before |-> player]
    /\ UNCHANGED <<now, zombies, nextId, obstacles, akVars, hpVars, wsVars, score>>
    /\ UNCHANGED wmVars

\* player.takeDamage(amount) called directly
TakeDamageCall(amounts) ==
    /\ \E amount \in amounts :
         /\ player' = TakeDamage(player, amount)
         /\ ret' = [op |-> "takeDamage", amount |-> amount, before |-> player]
    /\ UNCHANGED <<now, zombies, nextId, obstacles, akVars, hpVars, wsVars, score>>
    /\ UNCHANGED wmVars

\* player.heal(amount) called directly
HealCall(amounts) ==
    /\ \E amount \in amounts :
         /\ player' = Heal(player, amount)
         /\ ret' = [op |-> "heal", amount |-> amount, before |-> player]
    /\ UNCHANGED <<now, zombies, nextId, obstacles, akVars, hpVars, wsVars, score>>
    /\ UNCHANGED wmVars

\* player.cancelHealing()
CancelHealingCall ==
    /\ player' = CancelHealing(player)
    /\ ret' = [op |-> "cancelHealing", val |-> player.isHealing, before |-> player]
    /\ UNCHANGED <<now, zombies, nextId, obstacles, akVars, hpVars, wsVars, score>>
    /\ UNCHANGED wmVars

\* the pack object after the float animation of update()
Bobbed(pack, bob) == [pack EXCEPT !.y = PackBaseHeight + bob]

\* a frame of the pickup scenario: deltaTime passes on the clock,
\* PlayerController.update advances a heal in progress and
\* HealthPackManager.update floats the packs and despawns the old ones
HealFrame(deltaTimes, limit) ==
    /\ \E deltaTime \in deltaTimes, bob \in PackBobs :
         /\ now + deltaTime <= limit
         /\ now' = now + deltaTime
         /\ player' = UpdateHealing(UpdateActionKey(player, keys.e, deltaTime),
                                    deltaTime, now + deltaTime)
         /\ activations' =
                IF Activates(player, keys.e, deltaTime)
                THEN [hold |-> IF activations.hold < 2
                               THEN activations.hold + 1 ELSE 2,
                      last |-> now + deltaTime]
                ELSE activations
         /\ healthPacks' =
                Despawned([i \in 1..Len(healthPacks) |-> Bobbed(healthPacks[i], bob)],
                          now + deltaTime)
         /\ lookingAtHealthPack' =
                IF Listed(healthPacks, lookingAtHealthPack)
                THEN Bobbed(lookingAtHealthPack, bob)
                ELSE lookingAtHealthPack
         /\ ret' = [op |-> "frame", deltaTime |-> deltaTime, before |-> player]
    /\ UNCHANGED <<zombies, nextId, obstacles, nextPackId, wsVars, score, keys>>
    /\ UNCHANGED wmVars

\* pickups: enemies drop packs, the player is hurt, looks and uses them
NextPacks ==
    \/ SpawnHealthPackAtZombie(PackPoints, PackTypes, PackRolls)
    \/ CheckLookAt
    \/ TryUseHealthPack
    \/ BeginHealingCall
    \/ StartHealingCall(PackHealAmounts, PackHealDurations)
    \/ TakeDamageCall(PackDamages)
    \/ HealFrame(PackDeltaTimes, MaxPackTime)

SpecPacks == Init /\ [][NextPacks]_vars

\* loot: enemies of every type die and roll for a pack; old packs despawn
NextDrop ==
    \/ SpawnHealthPackAtZombie(PackPoints, DropTypes, DropRolls)
    \/ HealFrame(PackDeltaTimes, MaxPackTime)

SpecDrop == Init /\ [][NextDrop]_vars

\* healing: the PlayerController health operations in any order, with frames
\* that advance a heal in progress
NextHeal ==
    \/ StartHealingCall(HealAmounts, HealDurations)
    \/ TakeDamageCall(HealDamages)
    \/ HealCall(HealAmounts)
    \/ CancelHealingCall
    \/ HealFrame(HealDeltaTimes, MaxHealTime)

SpecHeal == Init /\ [][NextHeal]_vars

\* heals run by frames of several lengths, interrupted by damage or restarted
NextHealRun ==
    \/ StartHealingCall(HealAmounts, HealDurations)
    \/ TakeDamageCall(HealDamages)
    \/ HealFrame(HealRunDeltaTimes, MaxHealTime)

SpecHealRun == Init /\ [][NextHealRun]_vars

\* wave tables the constructor literal could be edited to: the authored one,
\* an empty one, and ones with an entry that totals no enemies
ConfigTables ==
    { AuthoredWaves,
      << >>,
      << [regularZombies |-> 0, tankZombies |-> 0, runnerZombies |-> 0] >>,
      << [regularZombies |-> 1, tankZombies |-> 0, runnerZombies |-> 0],
         [regularZombies |-> 0, tankZombies |-> 0, runnerZombies |-> 0] >>,
      << [regularZombies |-> 2, tankZombies |-> 1, runnerZombies |-> 0] >> }

\* the state after construction with one of the tables
InitConfig ==
    /\ now = 0
    /\ zombies = <<>>
    /\ nextId = 1
    /\ player = InitPlayer
    /\ obstacles = <<>>
    /\ healthPacks = <<>>
    /\ lookingAtHealthPack = NoPack
    /\ nextPackId = 1
    /\ waveConfigurations \in ConfigTables
    /\ currentWave = 0
    /\ waveActive = FALSE
    /\ waveStartTime = 0
    /\ zombiesRemaining = 0
    /\ timers = <<>>
    /\ score = 0
    /\ generation = 0
    /\ trueReturns = 0
    /\ isSlashing = FALSE
    /\ slashProgress = 0
    /\ swingHits = 0
    /\ ret = [op |-> "constructor"]
    /\ keys = InitKeys
    /\ activations = NoActivations

\* startNextWave on an empty table: currentWave++ is done, then reading
\* lastWaveConfig.regularZombies of undefined throws a TypeError
ThrowOnEmptyTable(wave, gen, op) ==
    /\ Len(waveConfigurations) = 0
    /\ currentWave' = wave + 1
    /\ generation' = gen
    /\ ret' = [op |-> op, threw |-> TRUE]
    /\ UNCHANGED <<now, zombies, nextId, player, obstacles, akVars, hpVars, wsVars, score,
                   waveConfigurations, waveActive, waveStartTime,
                   zombiesRemaining, timers, trueReturns>>

\* startGame() on whatever table the constructor left
StartGameOnTable ==
    \/ Len(waveConfigurations) > 0 /\ StartGame
    \/ generation < 1 /\ ThrowOnEmptyTable(0, generation + 1, "startGame")

\* startNextWave() on whatever table the constructor left
StartNextWaveOnTable ==
    \/ Len(waveConfigurations) > 0 /\ StartNextWave
    \/ /\ generation > 0 /\ ~waveActive /\ currentWave < MaxWave
       /\ ThrowOnEmptyTable(currentWave, generation, "startNextWave")

\* the wave lifecycle on an edited table, nobody fighting
NextConfig ==
    \/ StartGameOnTable
    \/ StartNextWaveOnTable
    \/ SpawnCallback
    \/ WaveUpdate
    \/ Frame(WaveDeltaTimes, MaxFrames * 1000)

SpecConfig == InitConfig /\ [][NextConfig]_vars

\* a game that is reset while spawn callbacks are pending
NextRestart ==
    \/ RestartGame
    \/ StartNextWaveAnytime
    \/ SpawnCallback
    \/ WaveUpdate
    \/ Frame(WaveDeltaTimes, MaxFrames * 1000)

SpecRestart == Init /\ [][NextRestart]_vars

----------------------------------------------------------------------------
(* Properties of WaveManager.update *)

Elapsed == now - waveStartTime

\* the spawn callback of the wave in progress has not run yet
SpawnPending ==
    \E i \in 1..Len(timers) : /\ timers[i].wave = currentWave
                              /\ timers[i].generation = generation

\* C1: update() returns true at most once per wave lifecycle: between two
\* startNextWave calls no second update() call returns true.
C1_TrueAtMostOncePerWave == trueReturns <= 1

\* an update() that returned false although the wave it cleared still has no
\* living enemy and the floor has passed
C1_Witness ==
    /\ ret.op = "update" /\ ~ret.val
    /\ trueReturns = 1
    /\ LivingCount(zombies) = 0
    /\ Elapsed > MinimumWaveTime

\* C2: update() returns true only with zero non-dead enemies in the roster and
\* more than the 5 s floor elapsed since the wave's start.
C2_TrueOnlyWhenClearAndPastFloor ==
    (ret.op = "update" /\ ret.val)
        => /\ \A i \in 1..Len(zombies) : zombies[i].isDead
           /\ now - waveStartTime > 5000

\* update() returned true while dead enemies were still in the roster
C2_Witness ==
    /\ ret.op = "update" /\ ret.val
    /\ Len(zombies) > 0

\* C3 as stated: with the wave active and no living enemy, update() returns
\* true on any call made at elapsed >= 5 s.
C3_TrueFromFloorOn ==
    (/\ ret.op = "update" /\ ret.wasActive
     /\ \A i \in 1..Len(zombies) : zombies[i].isDead
     /\ now - waveStartTime >= 5000)
        => ret.val

\* C3 amended: with the wave active and no living enemy, update() returns
\* true exactly when more than 5 s have elapsed; at 5 s or less it is false.
C3_TrueExactlyPastFloor ==
    (/\ ret.op = "update" /\ ret.wasActive
     /\ \A i \in 1..Len(zombies) : zombies[i].isDead)
        => (ret.val <=> now - waveStartTime > 5000)

\* every enemy of the wave was killed before the floor and update() said false
C3_Witness ==
    /\ ret.op = "update" /\ ~ret.val /\ ret.wasActive
    /\ Len(zombies) > 0
    /\ \A i \in 1..Len(zombies) : zombies[i].isDead
    /\ now - waveStartTime < 5000

\* C4: no update() call made between startNextWave() and the run of that
\* wave's delayed spawn callback returns true.
C4_NoClearBeforeSpawn ==
    (ret.op = "update" /\ SpawnPending) => ~ret.val

\* update() was called with the spawn still pending and no living enemy
C4_Witness ==
    /\ ret.op = "update" /\ ret.wasActive
    /\ SpawnPending
    /\ LivingCount(zombies) = 0
    /\ currentWave > 1

\* C5: a spawn callback scheduled before a game reset creates no enemies and
\* leaves the roster as it was when it fires after the reset.
C5_StaleSpawnIsNoOp ==
    (ret.op = "spawnWaveZombies" /\ ret.stale)
        => (ret.created = 0 /\ ~ret.rosterChanged)

----------------------------------------------------------------------------
(* Properties of damageZombie *)

\* the zombie damageZombie was last called on, as the call left it
Damaged == ZombieById(zombies, ret.id)

\* C6: damageZombie on an enemy that is already Dead returns false and leaves
\* the enemy as it was.
C6_DamageOnDeadIsNoOp ==
    (ret.op = "damageZombie" /\ ret.before.isDead)
        => (~ret.val /\ Damaged = ret.before)

\* C7: isDead implies health <= 0 for every enemy in the roster, and right after
\* a damageZombie call health <= 0 implies isDead.
C7_DeadIffNoHealth ==
    /\ \A i \in 1..Len(zombies) : zombies[i].isDead => zombies[i].health <= 0
    /\ ret.op = "damageZombie"
         => \A i \in 1..Len(zombies) : zombies[i].health <= 0 => zombies[i].isDead

\* damageZombie brought an enemy to exactly zero health
C7_Witness ==
    /\ ret.op = "damageZombie"
    /\ Damaged.health = 0 /\ Damaged.isDead

\* C8: no step increases the health of an enemy that stays in the roster.
C8_HealthNeverIncreases ==
    [][\A i \in 1..Len(zombies), j \in 1..Len(zombies') :
          zombies[i].id = zombies'[j].id => zombies'[j].health <= zombies[i].health]_vars

\* a damaged enemy went through a frame (hit flash over, AI ticked) and is alive
C8_Witness ==
    /\ ret.op = "zombieUpdate"
    /\ \E i \in 1..Len(zombies) :
         /\ ~zombies[i].isDead /\ ~zombies[i].isHit
         /\ zombies[i].hitFlashTime > 0
         /\ zombies[i].health < ZombieParams(zombies[i].zombieType).health

\* what C9 says of a call on a living enemy, but for the flags
DamageArithmetic ==
    /\ Damaged.health = ret.before.health - ret.damage
    /\ ret.val <=> Damaged.health <= 0
    /\ ret.val => (Damaged.isDead /\ Damaged.deathAnimationProgress = 0)
    /\ ~ret.val => ~Damaged.isDead

\* C9 as stated: on a living enemy damageZombie subtracts without clamping,
\* returns true exactly when the result is <= 0, and a kill makes the enemy Dead
\* at death progress 0 with isAvoidingObstacle and isCurrentlyAttacking cleared.
C9_KillClearsFlags ==
    (ret.op = "damageZombie" /\ ~ret.before.isDead)
        => /\ DamageArithmetic
           /\ ret.val => (~Damaged.isAvoidingObstacle /\ ~Damaged.isCurrentlyAttacking)

\* C9 amended: as stated, except that damageZombie leaves isAvoidingObstacle and
\* isCurrentlyAttacking as they were.
C9_KillKeepsFlags ==
    (ret.op = "damageZombie" /\ ~ret.before.isDead)
        => /\ DamageArithmetic
           /\ Damaged.isAvoidingObstacle = ret.before.isAvoidingObstacle
           /\ Damaged.isCurrentlyAttacking = ret.before.isCurrentlyAttacking

\* health 10, damage 25: killed, health -15
C9_Witness ==
    /\ ret.op = "damageZombie" /\ ret.val
    /\ ret.before.health = 10 /\ ret.damage = 25
    /\ Damaged.health = -15

----------------------------------------------------------------------------
(* Properties of checkZombieHit *)

\* the three conditions of C10 for a roster entry, from the camera's pose
Hittable(zombie) ==
    LET dx == zombie.x - player.x
        dy == zombie.y + 100 - player.y
        dz == zombie.z - player.z
        toward == Normalize(Vec(dx, dy, dz))
    IN  /\ ~zombie.isDead
        /\ dx * dx + dy * dy + dz * dz <= zombie.hitRange * zombie.hitRange
        /\ player.forward.x * toward.x + player.forward.y * toward.y
             + player.forward.z * toward.z > 700 * UNIT

\* C10: checkZombieHit returns one roster enemy that is not Dead, within its own
\* hitRange and inside the forward cone, and null when no enemy is all three.
C10_HitIsLivingInRangeInCone ==
    ret.op = "checkZombieHit"
        => /\ ret.hit /= 0
                => /\ Cardinality({i \in 1..Len(zombies) : zombies[i].id = ret.hit}) = 1
                   /\ Hittable(ZombieById(zombies, ret.hit))
           /\ ret.hit = 0 => \A i \in 1..Len(zombies) : ~Hittable(zombies[i])

\* a living enemy was returned although a dead one is nearer, in range and in
\* the cone
C10_Witness ==
    /\ ret.op = "checkZombieHit" /\ ret.hit /= 0
    /\ \E i \in 1..Len(zombies) :
         /\ zombies[i].isDead
         /\ Hittable([zombies[i] EXCEPT !.isDead = FALSE])
         /\ LengthSq(ToZombie(zombies[i], player))
              < LengthSq(ToZombie(ZombieById(zombies, ret.hit), player))

\* squared distance from the camera to a roster entry's centre
DistSq(zombie) ==
    (zombie.x - player.x) * (zombie.x - player.x)
      + (zombie.y + 100 - player.y) * (zombie.y + 100 - player.y)
      + (zombie.z - player.z) * (zombie.z - player.z)

\* roster index of the enemy checkZombieHit returned
HitIndex == CHOOSE i \in 1..Len(zombies) : zombies[i].id = ret.hit

\* C11: the enemy checkZombieHit returns is the nearest of the living enemies in
\* range and in the cone, and the first of them in roster order among those at
\* the nearest distance.
C11_NearestFirstOnTie ==
    (ret.op = "checkZombieHit" /\ ret.hit /= 0)
        => \A i \in 1..Len(zombies) :
             Hittable(zombies[i])
                => /\ DistSq(zombies[HitIndex]) <= DistSq(zombies[i])
                   /\ DistSq(zombies[i]) = DistSq(zombies[HitIndex]) => HitIndex <= i

\* the returned enemy has a later roster entry at the same distance that is
\* also living, in range and in the cone
C11_Witness ==
    /\ ret.op = "checkZombieHit" /\ ret.hit /= 0
    /\ \E i \in 1..Len(zombies) :
         /\ i > HitIndex /\ Hittable(zombies[i])
         /\ DistSq(zombies[i]) = DistSq(zombies[HitIndex])

----------------------------------------------------------------------------
(* Properties of the knife swing *)

\* C12: a swing damages at most one enemy: no more than one damageZombie call
\* is made from the press that starts a swing until the swing ends, a press
\* during a swing changes neither the swing nor any enemy, and a press changes
\* at most one roster entry.
C12_OneHitPerSwing ==
    /\ swingHits <= 1
    /\ ret.op = "mousedown"
         => /\ Len(zombies) = Len(ret.before)
            /\ Cardinality({i \in 1..Len(zombies) : zombies[i] /= ret.before[i]}) <= 1
            /\ ret.wasSlashing
                 => /\ zombies = ret.before
                    /\ isSlashing /\ slashProgress = ret.progress

\* a press during a swing that had hit one of two enemies in range and in the
\* cone left both as they were
C12_Witness ==
    /\ ret.op = "mousedown" /\ ret.wasSlashing
    /\ swingHits = 1
    /\ Cardinality({i \in 1..Len(zombies) : Hittable(zombies[i])}) >= 2

----------------------------------------------------------------------------
(* Properties of the death sequence and of enemy attacks *)

\* the roster entry with the given id is in the roster
InRoster(zs, id) == \E i \in 1..Len(zs) : zs[i].id = id

\* damage the living enemies of the roster can deal in one tick
RECURSIVE LivingDamage(_, _)
LivingDamage(zs, i) ==
    IF i > Len(zs) THEN 0
    ELSE (IF zs[i].isDead THEN 0 ELSE zs[i].damage) + LivingDamage(zs, i + 1)

\* what chase and attack handling write, and the place in the x/z plane
AIFields(zombie) ==
    <<zombie.x, zombie.z, zombie.lastAttackTime, zombie.isCurrentlyAttacking,
      zombie.attackProgress, zombie.pathfindCooldown, zombie.avoidanceTime,
      zombie.isAvoidingObstacle, zombie.avoidanceDirection>>

\* C13: a Dead enemy stays Dead while it is in the roster, no step moves it in
\* the x/z plane or writes what chase and attack handling write, and a tick
\* takes from the player no more than the living enemies' damage.
C13_DeadIsTerminal ==
    [][/\ \A i \in 1..Len(zombies), j \in 1..Len(zombies') :
            (zombies[i].id = zombies'[j].id /\ zombies[i].isDead)
               => (/\ zombies'[j].isDead
                   /\ AIFields(zombies'[j]) = AIFields(zombies[i]))
       /\ player'.health >= player.health - LivingDamage(zombies, 1)]_vars

\* a tick ran on a dead enemy that lay within its attackRange of the player
\* with its cooldown over, next to a living enemy
C13_Witness ==
    /\ ret.op = "zombieUpdate"
    /\ \E i \in 1..Len(zombies) :
         /\ zombies[i].isDead /\ zombies[i].deathAnimationProgress > 0
         /\ InAttackRange(zombies[i], player)
         /\ now - zombies[i].lastAttackTime >= zombies[i].attackCooldown
    /\ \E i \in 1..Len(zombies) : ~zombies[i].isDead

\* the longest frame of the attack scenario
LongestFrame == CHOOSE d \in AttackDeltaTimes : \A e \in AttackDeltaTimes : e <= d

\* a dead enemy with this id is in the roster, and the scenario still has the
\* ticks to take its death sequence to the end
DeadWithTicksLeft(id) ==
    \E i \in 1..Len(zombies) :
        /\ zombies[i].id = id /\ zombies[i].isDead
        /\ zombies[i].diedAt + DeathAnimationDuration + LongestFrame <= MaxAttackTime

Struck(i) ==
    \E j \in 1..Len(zombies') :
        /\ zombies'[j].id = zombies[i].id
        /\ zombies'[j].lastAttackTime /= zombies[i].lastAttackTime

\* damage of the roster entries from i on that struck in the step
RECURSIVE StruckDamage(_)
StruckDamage(i) ==
    IF i > Len(zombies) THEN 0
    ELSE (IF Struck(i) THEN zombies[i].damage ELSE 0) + StruckDamage(i + 1)

\* C15: an enemy strikes only in a tick where it is alive, within attackRange
\* of the player and at least attackCooldown (1 s) after its last strike; the
\* strike sets lastAttackTime to the time of the tick, and the tick lowers the
\* player's health by exactly the damage of the enemies that struck, down to 0.
C15_AttackOnlyAfterCooldown ==
    [][/\ \A i \in 1..Len(zombies) :
            Struck(i)
               => (/\ ~zombies[i].isDead
                   /\ (player.x - zombies[i].x) * (player.x - zombies[i].x)
                        + (player.z - zombies[i].z) * (player.z - zombies[i].z)
                        <= zombies[i].attackRange * zombies[i].attackRange
                   /\ now' - zombies[i].lastAttackTime >= 1000
                   /\ \A j \in 1..Len(zombies') :
                         zombies'[j].id = zombies[i].id
                            => zombies'[j].lastAttackTime = now')
       /\ player'.health = IF player.health - StruckDamage(1) < 0 THEN 0
                           ELSE player.health - StruckDamage(1)]_vars

\* the only enemy there ever was has struck the player a second time
C15_Witness ==
    /\ ret.op = "zombieUpdate"
    /\ nextId = 2 /\ Len(zombies) = 1
    /\ zombies[1].lastAttackTime = now
    /\ player.health < 100
    /\ player.health = 100 - 2 * zombies[1].damage

----------------------------------------------------------------------------
(* Properties of the wave table and of spawning *)

\* the step was a startNextWave call, on its own or from startGame
WaveStarted == ret'.op \in {"startGame", "startNextWave"}

\* C16: no step removes or changes an entry of the wave table, a step appends
\* at most one entry and only as a startNextWave whose wave counter exceeds
\* the table length, and after startNextWave the table has the current wave.
C16_TableOnlyGrows ==
    [][/\ Len(waveConfigurations') >= Len(waveConfigurations)
       /\ Len(waveConfigurations') <= Len(waveConfigurations) + 1
       /\ \A k \in 1..Len(waveConfigurations) :
             waveConfigurations'[k] = waveConfigurations[k]
       /\ (Len(waveConfigurations') > Len(waveConfigurations))
             => (WaveStarted /\ currentWave' > Len(waveConfigurations))
       /\ WaveStarted => (Len(waveConfigurations') >= currentWave')]_vars

\* wave 8 of a second game started with the table already grown past it
C16_Witness ==
    /\ ret.op = "startNextWave"
    /\ generation = 2
    /\ currentWave = 8
    /\ Len(waveConfigurations) = 9

\* C17: every entry past the 7 authored ones is the entry before it scaled as
\* floor(regular * 1.2), floor(tank * 1.2) + 1, floor(runner * 1.3) + 2, wave
\* 8 being 14, 4, 15; it is the configuration the wave's spawn uses; and the
\* total grows strictly from wave 7 on.
C17_SynthesizedFromPrevious ==
    /\ \A k \in 8..Len(waveConfigurations) :
          LET prev == waveConfigurations[k - 1]
              this == waveConfigurations[k]
          IN  /\ 5 * this.regularZombies <= 6 * prev.regularZombies
              /\ 5 * (this.regularZombies + 1) > 6 * prev.regularZombies
              /\ 5 * (this.tankZombies - 1) <= 6 * prev.tankZombies
              /\ 5 * this.tankZombies > 6 * prev.tankZombies
              /\ 10 * (this.runnerZombies - 2) <= 13 * prev.runnerZombies
              /\ 10 * (this.runnerZombies - 1) > 13 * prev.runnerZombies
              /\ this.regularZombies + this.tankZombies + this.runnerZombies
                   > prev.regularZombies + prev.tankZombies + prev.runnerZombies
    /\ Len(waveConfigurations) >= 8
          => waveConfigurations[8] = [regularZombies |-> 14, tankZombies |-> 4,
                                      runnerZombies |-> 15]
    /\ \A t \in 1..Len(timers) :
          timers[t].waveConfig = waveConfigurations[timers[t].wave]
    /\ (ret.op = "spawnWaveZombies")
          => (ret.waveConfig = waveConfigurations[ret.wave])

\* the spawn of wave 9 created the enemies of the second synthesized entry
C17_Witness ==
    /\ ret.op = "spawnWaveZombies" /\ ret.wave = 9
    /\ Len(zombies) = 42

\* roster entries of a type
OfType(zs, type) == {i \in 1..Len(zs) : zs[i].zombieType = type}

\* C18: right after spawnWaveZombies(config) the roster holds exactly
\* config.regular + config.tank + config.runner enemies, all alive and all
\* created by this call, with config.regular of type regular, config.tank of
\* type tank and config.runner of type runner.
C18_SpawnCountsMatchConfig ==
    (ret.op = "spawnWaveZombies")
        => /\ Len(zombies) = ret.waveConfig.regularZombies
                               + ret.waveConfig.tankZombies
                               + ret.waveConfig.runnerZombies
           /\ \A i \in 1..Len(zombies) :
                 ~zombies[i].isDead /\ zombies[i].health > 0
                   /\ zombies[i].id >= ret.firstId
           /\ Cardinality(OfType(zombies, "regular")) = ret.waveConfig.regularZombies
           /\ Cardinality(OfType(zombies, "tank")) = ret.waveConfig.tankZombies
           /\ Cardinality(OfType(zombies, "runner")) = ret.waveConfig.runnerZombies

\* a wave with all three types was spawned over the roster of the wave before
C18_Witness ==
    /\ ret.op = "spawnWaveZombies"
    /\ ret.before > 0
    /\ ret.waveConfig.tankZombies > 0 /\ ret.waveConfig.runnerZombies > 0
    /\ Len(zombies) /= ret.before

\* squared distance of a roster entry from the origin, cm^2
OriginDistSq(zombie) == zombie.x * zombie.x + zombie.z * zombie.z

\* C19: every enemy a wave spawns lies at a distance from the origin inside
\* the band of its type: regular 40 to 60 m, tank 50 to 70 m, runner 35 to 55 m.
C19_SpawnInsideAnnulus ==
    (ret.op = "spawnWaveZombies")
        => \A i \in 1..Len(zombies) :
              LET d == OriginDistSq(zombies[i])
              IN  /\ zombies[i].zombieType = "regular"
                       => (d >= 4000 * 4000 /\ d <= 6000 * 6000)
                  /\ zombies[i].zombieType = "tank"
                       => (d >= 5000 * 5000 /\ d <= 7000 * 7000)
                  /\ zombies[i].zombieType = "runner"
                       => (d >= 3500 * 3500 /\ d <= 5500 * 5500)

\* tanks were spawned at the inner edge of their band, off the +x axis, where
\* the regular band ends below them and the runner band does
C19_Witness ==
    /\ ret.op = "spawnWaveZombies"
    /\ \E i \in 1..Len(zombies) :
         /\ zombies[i].zombieType = "tank"
         /\ OriginDistSq(zombies[i]) = 5000 * 5000
         /\ zombies[i].x <= 0
    /\ \E i \in 1..Len(zombies) :
         /\ zombies[i].zombieType = "runner"
         /\ OriginDistSq(zombies[i]) = 3500 * 3500

\* a vector of length 1, to the last digits of the fixed-point components
UnitLength(v) ==
    /\ LengthSq(v) >= (UNIT - 2) * (UNIT - 2)
    /\ LengthSq(v) <= (UNIT + 2) * (UNIT + 2)

\* the call returned the cached avoidance direction
ReturnedCached ==
    /\ ret.op = "getAvoidanceDirection"
    /\ ret.before.isAvoidingObstacle /\ ret.before.avoidanceTime > 0

\* the call returned the heading without scanning, on the path-check cooldown
ReturnedThrottled ==
    /\ ret.op = "getAvoidanceDirection"
    /\ ~ReturnedCached /\ ~ret.scanned /\ ret.dir /= ZeroVec

\* the call found a rock in the way and returned a perpendicular
ReturnedPerpendicular ==
    /\ ret.op = "getAvoidanceDirection"
    /\ ret.scanned /\ ret.after.isAvoidingObstacle

\* the call scanned, found nothing in the way and returned the heading
ReturnedDirect ==
    /\ ret.op = "getAvoidanceDirection"
    /\ ret.scanned /\ ~ret.after.isAvoidingObstacle

\* the call returned the zero heading of a zombie standing on its target
ReturnedZero ==
    /\ ret.op = "getAvoidanceDirection"
    /\ ~ReturnedCached /\ ret.dir = ZeroVec

\* C20: every vector getAvoidanceDirection returns is unit-length or the zero
\* vector, on the cached, the throttled, the direct and the perpendicular
\* path, and the cached direction it keeps is one of the two as well.
C20_ReturnsUnitOrZero ==
    /\ (ret.op = "getAvoidanceDirection")
         => (ret.dir = ZeroVec \/ UnitLength(ret.dir))
    /\ \A i \in 1..Len(zombies) :
         \/ zombies[i].avoidanceDirection = ZeroVec
         \/ UnitLength(zombies[i].avoidanceDirection)

\* a call came back with the perpendicular an earlier call had cached
C20_Witness == ReturnedCached /\ ret.dir /= ZeroVec /\ ret.dir.z /= 0

\* the zombie as updateZombieAI hands it to handleChaseState in a tick
TickedForChase(zombie, deltaTime) ==
    [zombie EXCEPT !.pathfindCooldown = @ - deltaTime,
                   !.avoidanceTime = @ - deltaTime]

\* the vector getAvoidanceDirection returns to handleChaseState in a tick of
\* deltaTime from this state
TickSteer(zombie, deltaTime) ==
    GetAvoidanceDirection(TickedForChase(zombie, deltaTime), player, obstacles, 0).dir

\* an obstacle roughly ahead of the zombie on its way to the player, within
\* detection range and within the sum of the two radii
BlocksWithinRadiusSum(zombie, obstacle) ==
    LET dx == obstacle.x - zombie.x
        dz == obstacle.z - zombie.z
        distSquared == dx * dx + dz * dz
        reach == zombie.radius + obstacle.radius
    IN  /\ ObstacleUsable(obstacle)
        /\ distSquared <= ObstacleDetectionRange * ObstacleDetectionRange
        /\ distSquared <= reach * reach
        /\ Dot(DirectionTo(zombie, player), Normalize(Vec(dx, 0, dz)))
              >= InPathThreshold * UNIT

\* the vector is the unit vector from the zombie to the obstacle
PointsAt(dir, zombie, obstacle) ==
    /\ dir /= ZeroVec
    /\ dir = Normalize(Vec(obstacle.x - zombie.x, 0, obstacle.z - zombie.z))

\* C21: on every tick of a chasing enemy, the vector getAvoidanceDirection
\* returns is not a non-zero vector pointing directly at an obstacle that is
\* roughly ahead, within detection range and within one radius-sum of the enemy.
C21_NeverPointsAtBlocker ==
    \A i \in 1..Len(zombies), deltaTime \in AvoidDeltaTimes :
        (~zombies[i].isDead /\ ~InAttackRange(zombies[i], player))
            => \A k \in 1..Len(obstacles) :
                  BlocksWithinRadiusSum(zombies[i], obstacles[k])
                      => ~PointsAt(TickSteer(zombies[i], deltaTime), zombies[i],
                                   obstacles[k])

\* the roster holds enemies, all of them dead, and the last of them died at
\* the present clock value: a kill of this tick emptied the wave
KilledOffThisTick ==
    /\ Len(zombies) > 0
    /\ \A i \in 1..Len(zombies) : zombies[i].isDead
    /\ \E i \in 1..Len(zombies) : zombies[i].diedAt = now

\* C22: when damageZombie has killed the last living enemy in this tick and
\* the 5 s floor has passed, the update() call of the same tick returns true
\* although the dead enemies are still in the roster.
C22_KillVisibleInSameTick ==
    (/\ ret.op = "update" /\ ret.wasActive
     /\ KilledOffThisTick
     /\ now - waveStartTime > MinimumWaveTime)
        => ret.val

\* update() reported the wave clear in the tick of the last kill, several
\* dead enemies still lying in the roster
C22_Witness ==
    /\ ret.op = "update" /\ ret.val
    /\ KilledOffThisTick
    /\ Len(zombies) > 1

C23_ZeroWaveCleared ==
    /\ ret.op = "update" /\ ret.val
    /\ WaveTotal(waveConfigurations[currentWave]) = 0
    /\ nextId = 1

\* C24: a roster entry with required fields missing never aborts the tick:
\* in every tick each other enemy has its death animation advanced by the
\* frame time (or is removed at its end), or, if alive, has its AI run, which
\* takes the frame time off its avoidance timer.
C24_MalformedNeverAbortsTick ==
    [][(now' > now)
         => \A i \in 1..Len(zombies) :
               WellFormed(zombies[i])
                 => IF zombies[i].isDead
                    THEN \/ ~InRoster(zombies', zombies[i].id)
                         \/ ZombieById(zombies', zombies[i].id).deathAnimationProgress
                              = zombies[i].deathAnimationProgress + (now' - now)
                    ELSE /\ InRoster(zombies', zombies[i].id)
                         /\ ZombieById(zombies', zombies[i].id).avoidanceTime
                              = zombies[i].avoidanceTime - (now' - now)]_vars

\* the pack the last use attempt was made on is in the pack list
AttemptedPackListed == \E i \in 1..Len(healthPacks) : healthPacks[i].id = ret.pack

\* C25: a heal requested at full health is a no-op: startHealing at health
\* >= 100 returns false and leaves the player as it was, and tryUseHealthPack
\* and beginHealing at full health return false, leave the player as it was
\* and leave the pack in the pack list.
C25_HealAtFullHealthIsNoOp ==
    /\ (ret.op = "startHealing" /\ ret.before.health >= 100)
         => (~ret.val /\ player = ret.before)
    /\ (ret.op \in {"tryUseHealthPack", "beginHealing"} /\ ret.before.health >= 100)
         => /\ ~ret.val
            /\ player = ret.before
            /\ ret.wasListed => AttemptedPackListed

\* at full health the player looked at a pack of the list and pressed the
\* action button
C25_Witness ==
    /\ ret.op = "tryUseHealthPack"
    /\ ret.pressed /\ ret.wasListed
    /\ ret.before.health = 100

\* C27: a pack leaves the pack list when it is used or at the first update
\* made more than 30 s after its spawn, and a pack that has left the list
\* never again starts a heal, whatever the order of look-at checks, updates
\* and use attempts.
C27_PackGoneNeverHeals ==
    /\ (ret.op = "frame")
         => \A i \in 1..Len(healthPacks) : now - healthPacks[i].spawnTime <= 30000
    /\ (ret.op \in {"tryUseHealthPack", "beginHealing"} /\ ret.val)
         => (ret.wasListed /\ ~AttemptedPackListed)

\* a heal was started from a pack that update() had despawned before
C27_HealFromDespawnedPack ==
    /\ ret.op = "tryUseHealthPack" /\ ret.val /\ ~ret.wasListed
    /\ now - lookingAtHealthPack.spawnTime > 30000

\* a heal was started from a pack that was used before and is not old enough
\* to have despawned
C27_HealFromUsedPack ==
    /\ ret.op = "tryUseHealthPack" /\ ret.val /\ ~ret.wasListed
    /\ now - lookingAtHealthPack.spawnTime <= 30000

CreatedParams(zombie) ==
    [health |-> zombie.health, speed |-> zombie.speed,
     damage |-> zombie.damage, scale |-> zombie.radius * 2]

\* C29: an enemy created with type runner has a parameter set of its own,
\* not the regular one and not the tank one
C29_RunnerHasOwnParameters ==
    \A i \in 1..Len(zombies) :
        (zombies[i].zombieType = "runner" /\ zombies[i].health > 0 /\ ~zombies[i].isDead)
          => CreatedParams(zombies[i]) \notin {REGULAR_ZOMBIE, TANK_ZOMBIE}

\* a wave has spawned a runner that carries exactly the regular parameters
C29_RunnerIsRegular ==
    \E i \in 1..Len(zombies) :
        /\ zombies[i].zombieType = "runner"
        /\ CreatedParams(zombies[i]) = REGULAR_ZOMBIE

\* the planar distance from the enemy to the player is within its attack range
WithinAttackRange(zombie) ==
    (player.x - zombie.x) * (player.x - zombie.x)
      + (player.z - zombie.z) * (player.z - zombie.z)
        <= zombie.attackRange * zombie.attackRange

\* what a tick in the attacking state does to the enemy: it stays where it
\* is and strikes when its cooldown has run out
AttackingTick(zombie, after, currentTime) ==
    /\ after.x = zombie.x
    /\ after.z = zombie.z
    /\ (currentTime - zombie.lastAttackTime >= zombie.attackCooldown)
          => after.lastAttackTime = currentTime

\* what a tick in the chasing state does to the enemy: it moves by
\* direction * speed * deltaTime and does not strike
ChasingTick(zombie, after, deltaTime) ==
    LET dir == TickSteer(zombie, deltaTime)
    IN  /\ after.x = zombie.x + DivT(dir.x * zombie.speed * deltaTime, UNIT * 1000)
        /\ after.z = zombie.z + DivT(dir.z * zombie.speed * deltaTime, UNIT * 1000)
        /\ after.lastAttackTime = zombie.lastAttackTime

\* C30: every tick of a living enemy is an attacking tick if and only if the
\* planar distance to the player measured at that tick is within attackRange,
\* and a chasing tick otherwise; an attacking tick leaves x/z unchanged, a
\* chasing tick moves the enemy by direction * speed * deltaTime
C30_StateFollowsDistance ==
    [][ (ret'.op = "zombieUpdate")
          => \A i \in 1..Len(zombies) :
                (~zombies[i].isDead)
                  => LET zombie == zombies[i]
                         after == ZombieById(zombies', zombie.id)
                     IN  /\ zombie.id \in IdsOf(zombies')
                         /\ IF WithinAttackRange(zombie)
                            THEN AttackingTick(zombie, after, now')
                            ELSE ChasingTick(zombie, after, ret'.deltaTime)
      ]_vars

\* an enemy that walked up to the player has just struck from where it stands
C30_Witness ==
    /\ ret.op = "zombieUpdate"
    /\ \E i \in 1..Len(zombies) :
          /\ ~zombies[i].isDead
          /\ zombies[i].x < 200
          /\ WithinAttackRange(zombies[i])
          /\ zombies[i].lastAttackTime = now

\* the tick of the enemy reuses its cached avoidance direction: it is
\* chasing, avoiding, and its timer is still above 0 after the decrement
ReusesCached(zombie, deltaTime) ==
    /\ ~zombie.isDead
    /\ ~InAttackRange(zombie, player)
    /\ zombie.isAvoidingObstacle
    /\ zombie.avoidanceTime - deltaTime > 0

\* C31: while an enemy is avoiding with its timer above 0,
\* getAvoidanceDirection returns the cached direction, changes nothing and
\* does not scan; a chosen blocker sets the timer to 300..499 ms; every tick
\* of a living enemy takes deltaTime off the timer, so that the timer stays
\* below 500 ms and a tick reuses the cached direction only while less than
\* 500 ms of deltaTime have accumulated since it was cached
C31_StickyAvoidance ==
    [][ /\ (ret'.op = "getAvoidanceDirection"
               /\ ret'.before.isAvoidingObstacle /\ ret'.before.avoidanceTime > 0)
             => /\ ret'.dir = ret'.before.avoidanceDirection
                /\ ret'.after = ret'.before
                /\ ~ret'.scanned
        /\ (ret'.op = "getAvoidanceDirection"
               /\ ret'.scanned /\ ret'.after.isAvoidingObstacle)
             => /\ ret'.after.avoidanceTime >= 300
                /\ ret'.after.avoidanceTime < 500
                /\ ret'.after.avoidanceDirection = ret'.dir
        /\ (ret'.op = "zombieUpdate")
             => \A i \in 1..Len(zombies) :
                  (~zombies[i].isDead)
                    => LET zombie == zombies[i]
                           after == ZombieById(zombies', zombie.id)
                           deltaTime == ret'.deltaTime
                       IN  /\ \/ after.avoidanceTime = zombie.avoidanceTime - deltaTime
                              \/ /\ ~ReusesCached(zombie, deltaTime)
                                 /\ after.avoidanceTime >= 300
                                 /\ after.avoidanceTime < 500
                           /\ ReusesCached(zombie, deltaTime)
                                => /\ after.avoidanceDirection = zombie.avoidanceDirection
                                   /\ after.pathfindCooldown
                                        = zombie.pathfindCooldown - deltaTime
                                   /\ after.x = zombie.x
                                        + DivT(zombie.avoidanceDirection.x
                                                 * zombie.speed * deltaTime, UNIT * 1000)
                                   /\ after.z = zombie.z
                                        + DivT(zombie.avoidanceDirection.z
                                                 * zombie.speed * deltaTime, UNIT * 1000)
        /\ \A i \in 1..Len(zombies') : zombies'[i].avoidanceTime < 500
      ]_vars

\* a tick has just reused the direction a scan cached earlier: the enemy is
\* avoiding, part of its timer is spent and part is left
C31_Witness ==
    /\ ret.op = "zombieUpdate"
    /\ \E i \in 1..Len(zombies) :
          /\ zombies[i].isAvoidingObstacle
          /\ zombies[i].avoidanceTime > 0
          /\ zombies[i].avoidanceTime < 300
          /\ zombies[i].avoidanceDirection /= ZeroVec
          /\ ~InAttackRange(zombies[i], player)

\* the enemy moved from zombie to after by the direct unit vector to the
\* player times speed * deltaTime
MovedDirect(zombie, after, deltaTime) ==
    LET direction == DirectionTo(zombie, player)
    IN  /\ after.x = zombie.x + DivT(direction.x * zombie.speed * deltaTime, UNIT * 1000)
        /\ after.z = zombie.z + DivT(direction.z * zombie.speed * deltaTime, UNIT * 1000)

\* what the throttle of the obstacle scan does in a step: a direct call scans
\* only with the cooldown at or below 0 and leaves it at 100 ms; a chasing
\* tick scans only when the cooldown has run out, and otherwise takes
\* deltaTime off it, so that 100 ms of deltaTime lie between two scans; on
\* the ticks in `direct` the enemy moves by the direct unit vector
ScanThrottled(direct(_, _)) ==
    /\ (ret'.op = "getAvoidanceDirection")
         => /\ ret'.scanned => /\ ret'.before.pathfindCooldown <= 0
                               /\ ret'.after.pathfindCooldown = PathfindCooldown
            /\ ~ret'.scanned => ret'.after = ret'.before
    /\ (ret'.op = "zombieUpdate")
         => \A i \in 1..Len(zombies) :
              (~zombies[i].isDead /\ ~InAttackRange(zombies[i], player))
                => LET zombie == zombies[i]
                       after == ZombieById(zombies', zombie.id)
                       deltaTime == ret'.deltaTime
                       cooldown == zombie.pathfindCooldown - deltaTime
                   IN  /\ \/ after.pathfindCooldown = cooldown
                          \/ cooldown <= 0 /\ after.pathfindCooldown = PathfindCooldown
                       /\ (cooldown > 0) => after.pathfindCooldown = cooldown
                       /\ direct(zombie, deltaTime)
                            => MovedDirect(zombie, after, deltaTime)
    /\ \A i \in 1..Len(zombies') : zombies'[i].pathfindCooldown <= PathfindCooldown

\* the ticks on which the scan cooldown has not run out
OnCooldown(zombie, deltaTime) == zombie.pathfindCooldown - deltaTime > 0

\* the ticks on which the scan cooldown has not run out and no cached
\* avoidance direction is being reused
OnCooldownNotSticky(zombie, deltaTime) ==
    OnCooldown(zombie, deltaTime) /\ ~ReusesCached(zombie, deltaTime)

\* C32 as stated: a scan runs only when the enemy's cooldown has elapsed and
\* resets it to 100 ms, at least 100 ms of deltaTime pass between two scans,
\* and on every tick where the cooldown has not elapsed the enemy gets the
\* direct unit vector to the target, without a scan
C32_ThrottledTicksGoDirect == [][ScanThrottled(OnCooldown)]_vars

\* C32 amended: as above, but the direct unit vector is what a tick on
\* cooldown gets when no cached avoidance direction is being reused; a tick
\* that reuses the cached direction gets that one, also without a scan
C32_ThrottledTicksGoDirectUnlessSticky == [][ScanThrottled(OnCooldownNotSticky)]_vars

\* a tick on cooldown has just moved an enemy that is not avoiding: the
\* cooldown is partly spent
C32_Witness ==
    /\ ret.op = "zombieUpdate"
    /\ \E i \in 1..Len(zombies) :
          /\ ~zombies[i].isAvoidingObstacle
          /\ zombies[i].pathfindCooldown > 0
          /\ zombies[i].pathfindCooldown < PathfindCooldown
          /\ ~InAttackRange(zombies[i], player)

\* squared planar distance from the enemy to the obstacle
ObstacleDistSq(zombie, obstacle) ==
    (obstacle.x - zombie.x) * (obstacle.x - zombie.x)
      + (obstacle.z - zombie.z) * (obstacle.z - zombie.z)

\* indices of the obstacles with a position and a radius that are within
\* detection range of the enemy and roughly ahead on the heading
Qualifying(zombie, direction) ==
    {i \in 1..Len(obstacles) :
        /\ obstacles[i].radius /= 0
        /\ ObstacleDistSq(zombie, obstacles[i])
              <= ObstacleDetectionRange * ObstacleDetectionRange
        /\ Dot(direction,
               Normalize(Vec(obstacles[i].x - zombie.x, 0, obstacles[i].z - zombie.z)))
              >= InPathThreshold * UNIT}

\* dir is the perpendicular to the enemy-to-obstacle vector with the larger
\* dot product with the heading
BetterPerpendicular(dir, zombie, obstacle, direction) ==
    LET toObstacle == Normalize(Vec(obstacle.x - zombie.x, 0, obstacle.z - zombie.z))
        perpLeft == Vec(-toObstacle.z, 0, toObstacle.x)
        perpRight == Vec(toObstacle.z, 0, -toObstacle.x)
    IN  /\ dir \in {perpLeft, perpRight}
        /\ Dot(dir, direction) >= Dot(perpLeft, direction)
        /\ Dot(dir, direction) >= Dot(perpRight, direction)

\* the scan's result is the detour around the nearest of the obstacles in Q,
\* or the direct heading with the avoiding flag cleared when Q is empty
DetourFromNearest(Q) ==
    LET zombie == ret.before
        direction == DirectionTo(zombie, player)
    IN  IF Q = {}
        THEN ~ret.after.isAvoidingObstacle /\ ret.dir = direction
        ELSE /\ ret.after.isAvoidingObstacle
             /\ ret.after.avoidanceDirection = ret.dir
             /\ \E i \in Q :
                   /\ \A j \in Q : ObstacleDistSq(zombie, obstacles[i])
                                      <= ObstacleDistSq(zombie, obstacles[j])
                   /\ BetterPerpendicular(ret.dir, zombie, obstacles[i], direction)

\* C33: when a scan finds obstacles within detection range and roughly ahead,
\* the blocker is the nearest of them, whatever their order in the list, and
\* the detour is the perpendicular to the enemy-to-blocker vector with the
\* larger dot product with the heading; when no obstacle qualifies the
\* avoiding flag is cleared and the heading is returned
C33_DetourFromNearestAhead ==
    (ret.op = "getAvoidanceDirection" /\ ret.scanned)
      => DetourFromNearest(Qualifying(ret.before, DirectionTo(ret.before, player)))

\* a scan found one obstacle ahead at exactly the detection range and
\* returned the heading toward it
C33_BlockerAtRangeIgnored ==
    /\ ret.op = "getAvoidanceDirection" /\ ret.scanned
    /\ ~ret.after.isAvoidingObstacle
    /\ \E i \in Qualifying(ret.before, DirectionTo(ret.before, player)) :
          ObstacleDistSq(ret.before, obstacles[i])
            = ObstacleDetectionRange * ObstacleDetectionRange

\* a scan found two obstacles ahead, the nearer one later in the list, and
\* returned the detour around the nearer one
C33_NearerListedLast ==
    /\ ret.op = "getAvoidanceDirection" /\ ret.scanned
    /\ Len(obstacles) = 2
    /\ Qualifying(ret.before, DirectionTo(ret.before, player)) = {1, 2}
    /\ ObstacleDistSq(ret.before, obstacles[2]) < ObstacleDistSq(ret.before, obstacles[1])
    /\ BetterPerpendicular(ret.dir, ret.before, obstacles[2],
                           DirectionTo(ret.before, player))

\* position of the enemy with the id on the roster
RosterIndex(zs, id) == CHOOSE i \in 1..Len(zs) : zs[i].id = id

\* the enemy's death sequence is complete once this tick is added to it
CompletesDeath(zombie, deltaTime) ==
    /\ zombie.isDead
    /\ zombie.deathAnimationProgress + deltaTime >= DeathAnimationDuration

\* C34: the removeDeadZombies pass of a tick removes every enemy that is dead
\* with a completed death sequence, adjacent ones included, removes no other
\* enemy and keeps the others in their order; the update loop before it
\* neither drops nor adds nor reorders roster entries
C34_RemovalPassIsExact ==
    [][ (ret'.op = "zombieUpdate")
          => /\ \A i \in 1..Len(zombies') :
                  ~(zombies'[i].isDead
                      /\ zombies'[i].deathAnimationProgress >= DeathAnimationDuration)
             /\ IdsOf(zombies') \subseteq IdsOf(zombies)
             /\ \A i \in 1..Len(zombies) :
                  (zombies[i].id \notin IdsOf(zombies'))
                    <=> CompletesDeath(zombies[i], ret'.deltaTime)
             /\ \A i, j \in 1..Len(zombies') :
                  (i < j) => RosterIndex(zombies, zombies'[i].id)
                               < RosterIndex(zombies, zombies'[j].id)
      ]_vars

\* two enemies next to each other on the roster died before the first frame
\* and the pass of the frame that completed both death sequences removed both
C34_Witness ==
    /\ ret.op = "zombieUpdate"
    /\ now = DeathAnimationDuration
    /\ nextId = 3
    /\ zombies = <<>>

\* points due for the enemy's kill, by its type
PointsFor(zombie) ==
    CASE zombie.zombieType = "tank" -> 200
      [] zombie.zombieType = "runner" -> 150
      [] OTHER -> 100

\* C35: the score rises by the points of the enemy's type on the damageZombie
\* call that kills it (the enemy was not Dead before and is Dead after) and
\* by 0 on every other damageZombie call, a call on a Dead enemy included;
\* no step lowers the score
C35_ScoreOncePerKill ==
    [][ /\ score' >= score
        /\ (ret'.op = "damageZombie")
             => score' - score =
                  IF ~ret'.before.isDead /\ ZombieById(zombies', ret'.id).isDead
                  THEN PointsFor(ret'.before)
                  ELSE 0
      ]_vars

\* a damageZombie call on an enemy that was already Dead has just been made
\* and the score stands above the points of all enemies on the roster
C35_ScoredTwice ==
    /\ ret.op = "damageZombie" /\ ret.before.isDead
    /\ Len(zombies) = 1
    /\ score > PointsFor(zombies[1])

\* C36: with startNextWave called only at game start or after update() has
\* returned true for the wave before, the roster holds no living enemy
\* whenever a delayed spawnWaveZombies callback runs, so its roster reset
\* discards no living enemy
C36_SpawnFindsNoLivingEnemy ==
    (ret.op = "spawnWaveZombies") => ret.livingBefore = 0

\* the callback of a wave after the first has run: the wave before it was
\* spawned, killed off and reported clear
C36_Witness ==
    /\ ret.op = "spawnWaveZombies"
    /\ ret.wave > 1
    /\ ret.created > 0
    /\ ret.livingBefore = 0

\* the frame just taken completed a heal: it was in progress before the
\* frame and is not any more
HealCompleted ==
    /\ ret.op = "frame"
    /\ ret.before.isHealing
    /\ ~player.isHealing

\* C37: a heal that runs to completion has raised the health by exactly its
\* amount, or to the cap of 100, however the time was divided into ticks;
\* isHealing is false once progress is 1, and a frame with no heal in
\* progress adds no health
C37_HealAddsExactlyAmount ==
    /\ HealCompleted
         => /\ player.healProgress = 1000
            /\ player.health = Capped(player.healthBeforeHealing + player.healAmount)
    /\ (ret.op = "frame" /\ player.isHealing) => player.healProgress < 1000
    /\ (ret.op = "frame" /\ ~ret.before.isHealing) => player.health = ret.before.health

\* a heal has completed with more health added than its amount, below the cap
C37_OverHealed ==
    /\ HealCompleted
    /\ player.health < 100
    /\ player.health > player.healthBeforeHealing + player.healAmount

\* C38: after a takeDamage call isHealing is false and the health is the
\* health before the hit minus the damage, floored at 0, so what the
\* interrupted heal had restored is kept; isHealing turns true again only by
\* a startHealing that succeeds, and a tick without a heal in progress adds
\* no health
C38_DamageInterruptsHealing ==
    [][ /\ (ret'.op = "takeDamage")
             => /\ ~player'.isHealing
                /\ player'.health = IF player.health - ret'.amount < 0 THEN 0
                                    ELSE player.health - ret'.amount
        /\ (~player.isHealing /\ player'.isHealing)
             => (ret'.op = "startHealing" /\ ret'.val)
        /\ (~player.isHealing /\ ret'.op = "frame")
             => player'.health = player.health
      ]_vars

\* a hit has just interrupted a heal that had restored part of its amount;
\* the part is kept and the damage taken off it
C38_Witness ==
    /\ ret.op = "takeDamage"
    /\ ret.before.isHealing
    /\ ret.before.health > ret.before.healthBeforeHealing
    /\ ret.amount > 0
    /\ ~player.isHealing
    /\ player.health = ret.before.health - ret.amount
    /\ player.health > 0

-----------------------------------------------------------------------------
(* The action key *)

MaxKeyTime == 1300
KeyDeltaTimes == {100, 250}

\* GameState.handleKeyDown for the E key; the browser repeats the event
\* while the key stays down
HandleKeyDown ==
    /\ keys' = [keys EXCEPT !.e = TRUE]
    /\ ret' = [op |-> "handleKeyDown"]
    /\ UNCHANGED <<now, zombies, nextId, player, obstacles, hpVars, wsVars,
                   score, activations>>
    /\ UNCHANGED wmVars

\* GameState.handleKeyUp for the E key: the hold of E ends
HandleKeyUp ==
    /\ keys' = [keys EXCEPT !.e = FALSE]
    /\ activations' = [activations EXCEPT !.hold = 0]
    /\ ret' = [op |-> "handleKeyUp"]
    /\ UNCHANGED <<now, zombies, nextId, player, obstacles, hpVars, wsVars,
                   score>>
    /\ UNCHANGED wmVars

\* a reader of isActionKeyPressed() that acts and consumes the press
ConsumeActionKeyPressCall ==
    /\ player.actionKeyPressed
    /\ player' = ConsumeActionKeyPress(player)
    /\ ret' = [op |-> "consumeActionKeyPress"]
    /\ UNCHANGED <<now, zombies, nextId, obstacles, hpVars, wsVars, score,
                   akVars>>
    /\ UNCHANGED wmVars

NextActionKey ==
    \/ HandleKeyDown
    \/ HandleKeyUp
    \/ ConsumeActionKeyPressCall
    \/ HealFrame(KeyDeltaTimes, MaxKeyTime)

SpecActionKey == Init /\ [][NextActionKey]_vars

\* C39: the action key is edge-triggered: during one continuous hold of E
\* actionKeyPressed is set at most once, so after consumeActionKeyPress it
\* is not set again before E has been released and pressed again; and two
\* activations are at least 0.5 s apart.
C39_ActionKeyEdgeTriggered ==
    [][ /\ activations'.hold < 2
        /\ (activations'.last # activations.last /\ activations.last >= 0)
             => activations'.last - activations.last >= ActionKeyCooldown
      ]_vars

\* two activations during one hold of E
C39_RepeatsWhileHeld ==
    /\ activations.hold = 2
    /\ keys.e
    /\ player.actionKeyPressed

\* C39, the spacing alone: two activations are at least 0.5 s apart
C39_ActivationsSpaced ==
    [][ (activations'.last # activations.last /\ activations.last >= 0)
             => activations'.last - activations.last >= ActionKeyCooldown
      ]_vars

====
